---- MODULE Spec2Model ----
(***************************************************************************)
(* A model of the Tock kernel loop (kernel/src/sched.rs), of the syscall   *)
(* dispatcher it contains, and of two capsules it dispatches to: the       *)
(* button driver (capsules/src/button.rs) and the USB user driver          *)
(* (capsules/src/usb/usb_user.rs).                                         *)
(*                                                                         *)
(* The kernel thread is one sequential program; its position is pc.  The   *)
(* environment is the hardware (interrupts becoming pending, the scheduler *)
(* timer counting down), the scheduling policy (any decision of next())    *)
(* and the user processes (any syscall, a fault, running until             *)
(* interrupted).                                                           *)
(***************************************************************************)
EXTENDS Integers, Sequences, FiniteSets, TLC

(***************************************************************************)
(* Bounds of the model and constants of the program.                       *)
(***************************************************************************)
\* sched.rs:39
MIN_QUANTA_THRESHOLD_US == 500
\* Longest timeslice a scheduling decision carries in the model.
MaxTimeslice == 1000
\* Capacity of a process's task queue.
MaxTasks == 2
\* Largest process identifier create_process_identifier hands out.
MaxIdentifier == 2

\* Slots of the kernel's processes array.
ProcIdx == {1, 2}
\* Indices of the button driver's pins array (pins.len() = 2).
NumPins == 2
Pins == 0 .. (NumPins - 1)

\* Driver numbers known to the platform's with_driver, and one that is not.
BUTTON_DRIVER_NUM == 3
USB_DRIVER_NUM == 20
NO_DRIVER_NUM == 99
DriverNums == {BUTTON_DRIVER_NUM, USB_DRIVER_NUM, NO_DRIVER_NUM}

\* Option<T>: None is the empty sequence, Some(v) the one-element sequence.
None == << >>
Some(v) == << v >>
IsSome(o) == o # << >>
Unwrap(o) == o[1]

\* Value the null scheduler timer reports as remaining ("infinite").
NullTimerRemaining == 10000

\* process::State
States == {"Unstarted", "Running", "Yielded", "StoppedRunning",
           "StoppedYielded", "Faulted", "Terminated"}

\* Upcall: (appdata, fn_ptr); the null upcall has no function pointer.
NullUpcall == [fn |-> 0, ud |-> 0]
FnPtrs == {1, 2}
AppData == {0, 1}

\* UpcallId of a (driver, subscribe) pair
UpcallId(d, s) == << d, s >>
\* The id the kernel gives the init function of a process.
KernelTaskId == << 0, 0 >>

\* ErrorCode values used by the dispatcher and the two drivers.
ErrorCodes == {"FAIL", "BUSY", "INVAL", "NOSUPPORT", "NODEVICE", "NOMEM"}

\* SyscallReturn variants (all records, compared by tag and payload).
\* No return value set since the process made the syscall of this kind.
RvUnset(kind) == [tag |-> "Unset", kind |-> kind]
Failure(e) == [tag |-> "Failure", code |-> e]
Success == [tag |-> "Success"]
SuccessU32(v) == [tag |-> "SuccessU32", v |-> v]
SubscribeSuccess(ptr, ud) == [tag |-> "SubscribeSuccess", ptr |-> ptr, ud |-> ud]
SubscribeFailure(e, ptr, ud) ==
    [tag |-> "SubscribeFailure", code |-> e, ptr |-> ptr, ud |-> ud]
AllowReadWriteFailure(e, ptr, len) ==
    [tag |-> "AllowReadWriteFailure", code |-> e, ptr |-> ptr, len |-> len]
AllowReadOnlyFailure(e, ptr, len) ==
    [tag |-> "AllowReadOnlyFailure", code |-> e, ptr |-> ptr, len |-> len]
MemopReturn == [tag |-> "MemopReturn"]

VARIABLES
    pc,             \* position of the kernel thread
    processes,      \* Kernel.processes: slot -> Option<process>
    work,           \* Kernel.work
    identifier_max, \* Kernel.process_identifier_max
    pending_irq,    \* chip.has_pending_interrupts()
    deferred,       \* DynamicDeferredCall::global_instance_calls_pending()
    atomic,         \* inside chip.atomic: interrupts masked
    cpu,            \* app MPU on/off, MPU enables minus disables, who is in user mode
    timer,          \* the chip's scheduler timer
    dp,             \* locals of do_process: process, timeslice, return_reason
    csr,            \* the context switch reason switch_to returned, and the syscall
    sched,          \* what the scheduler was last told by result()
    iter,           \* what the current kernel-loop iteration has done so far
    button_apps,    \* Button.apps grant: slot -> (Upcall, SubscribeMap)
    pin_enabled,    \* per pin: interrupt enabled
    usb_apps,       \* UsbSyscallDriver.apps grant: slot -> App
    usbc,           \* the USB controller client: [enabled, attached]
    serving_app,    \* UsbSyscallDriver.serving_app
    obs,            \* observations of the run (history)
    grant_counter,  \* Kernel.grant_counter
    grants_finalized, \* Kernel.grants_finalized
    called          \* the last call of the grant interface or a driver (history)

vars == << pc, processes, work, identifier_max, pending_irq, deferred, atomic,
           cpu, timer, dp, csr, sched, iter, button_apps, pin_enabled,
           usb_apps, usbc, serving_app, obs, grant_counter, grants_finalized,
           called >>

\* The grant registry of the kernel.
grants == << grant_counter, grants_finalized, called >>

(***************************************************************************)
(* The part of the state that process and driver operations change, as a   *)
(* record, so that operations compose in the order the code calls them.    *)
(***************************************************************************)
Cur ==
    [processes |-> processes, work |-> work, identifier_max |-> identifier_max,
     button_apps |-> button_apps, pin_enabled |-> pin_enabled,
     usb_apps |-> usb_apps, usbc |-> usbc, obs |-> obs]

Commit(k) ==
    /\ processes' = k.processes
    /\ work' = k.work
    /\ identifier_max' = k.identifier_max
    /\ button_apps' = k.button_apps
    /\ pin_enabled' = k.pin_enabled
    /\ usb_apps' = k.usb_apps
    /\ usbc' = k.usbc
    /\ obs' = k.obs

\* Default values of the two grants' per-process data.
ButtonDefault == [upcall |-> NullUpcall, mask |-> 0]
UsbDefault == [callback |-> NullUpcall, awaiting |-> None]

(***************************************************************************)
(* Kernel: work counter and process lookup.                                *)
(***************************************************************************)
\* increment_work that does not count.
increment_work_lost(k) == k

increment_work(k) == [k EXCEPT !.work = @ + 1]

decrement_work(k) == [k EXCEPT !.work = @ - 1]

processes_blocked(k) == k.work = 0

ProcessId(index, id) == [index |-> index, id |-> id]

\* The lookup without the comparison of the identifiers.
process_map_or_any_id(k, appid) ==
    /\ appid.index \in ProcIdx
    /\ IsSome(k.processes[appid.index])

\* Whether process_map_or finds a process for appid and runs its closure.
process_map_or(k, appid) ==
    /\ appid.index \in ProcIdx
    /\ IsSome(k.processes[appid.index])
    /\ Unwrap(k.processes[appid.index]).id = appid.id

Proc(k, i) == Unwrap(k.processes[i])

processid(k, i) == ProcessId(i, Proc(k, i).id)

(***************************************************************************)
(* Process: the operations the kernel loop and the drivers call.           *)
(***************************************************************************)
get_state(k, i) == Proc(k, i).state

is_active(k, i) == get_state(k, i) \notin {"Terminated", "Faulted"}

has_tasks(k, i) == Len(Proc(k, i).tasks) > 0

ready(k, i) == has_tasks(k, i) \/ get_state(k, i) = "Running"

\* A state change keeps the work counter's share of Running processes.
update_state(k, i, s) ==
    LET old == get_state(k, i)
        k1 == [k EXCEPT !.processes[i] = Some([Proc(k, i) EXCEPT !.state = s])]
    IN  IF old # "Running" /\ s = "Running" THEN increment_work(k1)
        ELSE IF old = "Running" /\ s # "Running" THEN decrement_work(k1)
        ELSE k1

set_syscall_return_value(k, i, rv) ==
    [k EXCEPT !.processes[i] = Some([Proc(k, i) EXCEPT !.retval = rv])]

set_yielded_state(k, i) ==
    IF get_state(k, i) = "Running" THEN update_state(k, i, "Yielded") ELSE k

\* Appends the task unless the process is dead or its queue is full.
enqueue_task(k, i, t) ==
    IF is_active(k, i) /\ Len(Proc(k, i).tasks) < MaxTasks
    THEN increment_work(
            [k EXCEPT !.processes[i] =
                Some([Proc(k, i) EXCEPT !.tasks = Append(@, t)])])
    ELSE k

\* The task at the head of the queue, if any.
peek_task(k, i) ==
    IF has_tasks(k, i) THEN Some(Head(Proc(k, i).tasks)) ELSE None

dequeue_task(k, i) ==
    IF has_tasks(k, i)
    THEN decrement_work(
            [k EXCEPT !.processes[i] =
                Some([Proc(k, i) EXCEPT !.tasks = Tail(@)])])
    ELSE k

IsUpcallFor(t, id) == t.kind = "FunctionCall" /\ t.id = id

remove_pending_upcalls(k, i, id) ==
    LET old == Proc(k, i).tasks
        kept == SelectSeq(old, LAMBDA t : ~IsUpcallFor(t, id))
    IN  [k EXCEPT !.processes[i] = Some([Proc(k, i) EXCEPT !.tasks = kept]),
                  !.work = @ - (Len(old) - Len(kept))]

set_process_function(k, i, t) == update_state(k, i, "Running")

\* The process's grants are released with the process.
release_grants(k, i) ==
    [k EXCEPT !.button_apps[i] = ButtonDefault, !.usb_apps[i] = UsbDefault]

drop_tasks(k, i) ==
    [k EXCEPT !.processes[i] = Some([Proc(k, i) EXCEPT !.tasks = << >>]),
              !.work = @ - Len(Proc(k, i).tasks)]

terminate(k, i) ==
    IF is_active(k, i)
    THEN update_state(release_grants(drop_tasks(k, i), i), i, "Terminated")
    ELSE k

set_fault_state(k, i) ==
    update_state(release_grants(drop_tasks(k, i), i), i, "Faulted")

InitTask ==
    [kind |-> "FunctionCall", id |-> KernelTaskId, fn |-> 0, a0 |-> 0, a1 |-> 0,
     ud |-> 0, stale |-> FALSE]

NewProcess(id) ==
    [id |-> id, state |-> "Unstarted", tasks |-> << InitTask >>,
     retval |-> RvUnset("none")]

\* A restart gives the slot a new process with a new identifier.
restart(k, i) ==
    LET k1 == terminate(k, i)
    IN  increment_work(
            [k1 EXCEPT !.processes[i] = Some(NewProcess(k1.identifier_max)),
                       !.identifier_max = @ + 1])

try_restart(k, i, allowed) ==
    IF allowed /\ k.identifier_max < MaxIdentifier
    THEN restart(k, i)
    ELSE terminate(k, i)

stop(k, i) ==
    CASE get_state(k, i) = "Running" -> update_state(k, i, "StoppedRunning")
      [] get_state(k, i) = "Yielded" -> update_state(k, i, "StoppedYielded")
      [] OTHER -> k

resume(k, i) ==
    CASE get_state(k, i) = "StoppedRunning" -> update_state(k, i, "Running")
      [] get_state(k, i) = "StoppedYielded" -> update_state(k, i, "Yielded")
      [] OTHER -> k

(***************************************************************************)
(* Grant<T>: access to a process's T by ProcessId.                         *)
(***************************************************************************)
\* enter runs its closure iff the process exists, matches the id and is alive.
grant_enter_ok(k, appid) ==
    process_map_or(k, appid) /\ is_active(k, appid.index)

\* ErrorCode that the Error of a failed enter converts into.
GrantEnterErrorCode == "INVAL"

\* The slots grant.each / grant.iter visit, in the order of the processes array.
grant_each(k) == {i \in ProcIdx : IsSome(k.processes[i]) /\ is_active(k, i)}

\* Upcall.schedule: queues a function call on the process, unless the upcall is null.
upcall_schedule(k, i, id, upcall, a0, a1) ==
    IF upcall.fn = 0 THEN k
    ELSE enqueue_task(k, i,
            [kind |-> "FunctionCall", id |-> id, fn |-> upcall.fn, a0 |-> a0,
             a1 |-> a1, ud |-> upcall.ud, stale |-> FALSE])

(***************************************************************************)
(* SubscribeMap: a u32 bit array.                                          *)
(***************************************************************************)
HasBit(m, b) == (m \div (2 ^ b)) % 2 = 1

SetBit(m, b) == IF HasBit(m, b) THEN m ELSE m + 2 ^ b

\* Mutant: the bit is left as it is.
ClearBit_Keeps(m, b) == m

ClearBit(m, b) == IF HasBit(m, b) THEN m - 2 ^ b ELSE m

(***************************************************************************)
(* capsules/src/button.rs                                                  *)
(***************************************************************************)
\* Mutant: the callback is installed, and handed back instead of the old one.
Button_subscribe_no_swap(k, subscribe_num, callback, app_id) ==
    IF subscribe_num = 0 /\ grant_enter_ok(k, app_id)
    THEN [k |-> [k EXCEPT !.button_apps[app_id.index].upcall = callback],
          ok |-> TRUE, upcall |-> callback, code |-> "NONE"]
    ELSE [k |-> k, ok |-> FALSE, upcall |-> callback,
          code |-> IF subscribe_num = 0 THEN GrantEnterErrorCode ELSE "NOSUPPORT"]

\* Result<Upcall, (Upcall, ErrorCode)> as [ok, upcall, code], with the new state.
Button_subscribe(k, subscribe_num, callback, app_id) ==
    IF subscribe_num = 0 /\ grant_enter_ok(k, app_id)
    THEN [k |-> [k EXCEPT !.button_apps[app_id.index].upcall = callback],
          ok |-> TRUE, upcall |-> k.button_apps[app_id.index].upcall,
          code |-> "NONE"]
    ELSE [k |-> k, ok |-> FALSE, upcall |-> callback,
          code |-> IF subscribe_num = 0 THEN GrantEnterErrorCode ELSE "NOSUPPORT"]

\* Mutant: the sweep finds nobody.
Button_interrupt_count_none(k, data) == 0

\* Number of live processes whose mask has the bit of pin data.
Button_interrupt_count(k, data) ==
    Cardinality({i \in grant_each(k) : HasBit(k.button_apps[i].mask, data)})

\* Mutant: the pin index may equal the number of pins.
Button_command_off_by_one(k, command_num, data, appid, level) ==
    CASE command_num = 0 -> [k |-> k, res |-> SuccessU32(NumPins)]
      [] command_num = 1 ->
            IF data <= NumPins
            THEN IF grant_enter_ok(k, appid)
                 THEN [k |-> [k EXCEPT
                                !.button_apps[appid.index].mask = SetBit(@, data),
                                !.pin_enabled[data] = TRUE],
                       res |-> Success]
                 ELSE [k |-> k, res |-> Failure(GrantEnterErrorCode)]
            ELSE [k |-> k, res |-> Failure("INVAL")]
      [] command_num = 2 ->
            IF data > NumPins
            THEN [k |-> k, res |-> Failure("INVAL")]
            ELSE LET entered == grant_enter_ok(k, appid)
                     k1 == IF entered
                           THEN [k EXCEPT
                                  !.button_apps[appid.index].mask = ClearBit(@, data)]
                           ELSE k
                     k2 == IF Button_interrupt_count(k1, data) = 0
                           THEN [k1 EXCEPT !.pin_enabled[data] = FALSE]
                           ELSE k1
                 IN  [k |-> k2,
                      res |-> IF entered THEN Success
                              ELSE Failure(GrantEnterErrorCode)]
      [] command_num = 3 ->
            IF data > NumPins
            THEN [k |-> k, res |-> Failure("INVAL")]
            ELSE [k |-> k, res |-> SuccessU32(level)]
      [] OTHER -> [k |-> k, res |-> Failure("NOSUPPORT")]

\* command: the new state and the CommandReturn; level is the pin's activation state.
Button_command(k, command_num, data, appid, level) ==
    CASE command_num = 0 -> [k |-> k, res |-> SuccessU32(NumPins)]
      [] command_num = 1 ->
            IF data < NumPins
            THEN IF grant_enter_ok(k, appid)
                 THEN [k |-> [k EXCEPT
                                !.button_apps[appid.index].mask = SetBit(@, data),
                                !.pin_enabled[data] = TRUE],
                       res |-> Success]
                 ELSE [k |-> k, res |-> Failure(GrantEnterErrorCode)]
            ELSE [k |-> k, res |-> Failure("INVAL")]
      [] command_num = 2 ->
            IF data >= NumPins
            THEN [k |-> k, res |-> Failure("INVAL")]
            ELSE LET entered == grant_enter_ok(k, appid)
                     k1 == IF entered
                           THEN [k EXCEPT
                                  !.button_apps[appid.index].mask = ClearBit(@, data)]
                           ELSE k
                     k2 == IF Button_interrupt_count(k1, data) = 0
                           THEN [k1 EXCEPT !.pin_enabled[data] = FALSE]
                           ELSE k1
                 IN  [k |-> k2,
                      res |-> IF entered THEN Success
                              ELSE Failure(GrantEnterErrorCode)]
      [] command_num = 3 ->
            IF data >= NumPins
            THEN [k |-> k, res |-> Failure("INVAL")]
            ELSE [k |-> k, res |-> SuccessU32(level)]
      [] OTHER -> [k |-> k, res |-> Failure("NOSUPPORT")]

\* Mutant: the upcall of every process in todo is scheduled, bit or no bit.
RECURSIVE Button_fired_each_no_bit_test(_, _, _, _)
Button_fired_each_no_bit_test(k, todo, pin_num, button_state) ==
    IF todo = {} THEN k
    ELSE LET i == CHOOSE x \in todo : \A y \in todo : x <= y
             k1 == upcall_schedule(k, i, UpcallId(BUTTON_DRIVER_NUM, 0),
                                   k.button_apps[i].upcall, pin_num, button_state)
         IN  Button_fired_each_no_bit_test(k1, todo \ {i}, pin_num, button_state)

\* Schedules the upcall of every process in todo that has the pin's bit set.
RECURSIVE Button_fired_each(_, _, _, _)
Button_fired_each(k, todo, pin_num, button_state) ==
    IF todo = {} THEN k
    ELSE LET i == CHOOSE x \in todo : \A y \in todo : x <= y
             k1 == IF HasBit(k.button_apps[i].mask, pin_num)
                   THEN upcall_schedule(k, i, UpcallId(BUTTON_DRIVER_NUM, 0),
                                        k.button_apps[i].upcall, pin_num,
                                        button_state)
                   ELSE k
         IN  Button_fired_each(k1, todo \ {i}, pin_num, button_state)

\* Mutant: the bottom half disables the pin whoever is interested.
Button_fired_disables(k, pin_num, button_state) ==
    LET k1 == Button_fired_each(k, grant_each(k), pin_num, button_state)
    IN  [k1 EXCEPT !.pin_enabled[pin_num] = FALSE]

Button_fired(k, pin_num, button_state) ==
    LET k1 == Button_fired_each(k, grant_each(k), pin_num, button_state)
    IN  IF Button_interrupt_count(k, pin_num) = 0
        THEN [k1 EXCEPT !.pin_enabled[pin_num] = FALSE]
        ELSE k1

(***************************************************************************)
(* capsules/src/usb/usb_user.rs                                            *)
(***************************************************************************)
Usb_subscribe(k, subscribe_num, callback, app_id) ==
    IF subscribe_num = 0 /\ grant_enter_ok(k, app_id)
    THEN [k |-> [k EXCEPT !.usb_apps[app_id.index].callback = callback],
          ok |-> TRUE, upcall |-> k.usb_apps[app_id.index].callback,
          code |-> "NONE"]
    ELSE [k |-> k, ok |-> FALSE, upcall |-> callback,
          code |-> IF subscribe_num = 0 THEN GrantEnterErrorCode ELSE "NOSUPPORT"]

\* Mutant: the app served keeps its request.
serve_waiting_apps_keeps_request(k, serving) ==
    LET waiting == {i \in grant_each(k) : IsSome(k.usb_apps[i].awaiting)}
    IN  IF IsSome(serving) \/ waiting = {} THEN k
        ELSE LET i == CHOOSE x \in waiting : \A y \in waiting : x <= y
                 k1 == [k EXCEPT !.usbc = [enabled |-> TRUE, attached |-> TRUE]]
             IN  upcall_schedule(k1, i, UpcallId(USB_DRIVER_NUM, 0),
                                 k1.usb_apps[i].callback, 0, 0)

\* The first app, in iteration order, with a request pending is served.
serve_waiting_apps(k, serving) ==
    LET waiting == {i \in grant_each(k) : IsSome(k.usb_apps[i].awaiting)}
    IN  IF IsSome(serving) \/ waiting = {} THEN k
        ELSE LET i == CHOOSE x \in waiting : \A y \in waiting : x <= y
                 k1 == [k EXCEPT !.usbc = [enabled |-> TRUE, attached |-> TRUE]]
                 k2 == upcall_schedule(k1, i, UpcallId(USB_DRIVER_NUM, 0),
                                       k1.usb_apps[i].callback, 0, 0)
             IN  [k2 EXCEPT !.usb_apps[i].awaiting = None]

Usb_command(k, command_num, appid, serving) ==
    CASE command_num = 0 -> [k |-> k, res |-> Success]
      [] command_num = 1 ->
            IF ~grant_enter_ok(k, appid)
            THEN [k |-> k, res |-> Failure(GrantEnterErrorCode)]
            ELSE IF IsSome(k.usb_apps[appid.index].awaiting)
            THEN [k |-> k, res |-> Failure("BUSY")]
            ELSE [k |-> serve_waiting_apps(
                          [k EXCEPT !.usb_apps[appid.index].awaiting =
                                        Some("EnableAndAttach")],
                          serving),
                  res |-> Success]
      [] OTHER -> [k |-> k, res |-> Failure("NOSUPPORT")]

(***************************************************************************)
(* Syscalls, as the decoded Syscall enum: the selector or driver number n, *)
(* the subdriver number sub and two arguments.                             *)
(***************************************************************************)
Syscall(kind, n, sub, a0, a1) ==
    [kind |-> kind, n |-> n, sub |-> sub, a0 |-> a0, a1 |-> a1]
\* Yield { which, address }
Yield(which, address) == Syscall("Yield", which, 0, address, 0)
\* Exit { which, completion_code }
Exit(which, completion_code) == Syscall("Exit", which, 0, completion_code, 0)
\* Memop { operand, arg0 }
Memop(operand, arg0) == Syscall("Memop", operand, 0, arg0, 0)
\* Subscribe { driver_number, subdriver_number, upcall_ptr, appdata }
Subscribe(d, sub, upcall_ptr, appdata) ==
    Syscall("Subscribe", d, sub, upcall_ptr, appdata)
\* Command { driver_number, subdriver_number, arg0, arg1 }
Command(d, sub, arg0, arg1) == Syscall("Command", d, sub, arg0, arg1)
\* ReadWriteAllow { driver_number, subdriver_number, allow_address, allow_size }
ReadWriteAllow(d, sub, addr, size) == Syscall("ReadWriteAllow", d, sub, addr, size)
\* ReadOnlyAllow { driver_number, subdriver_number, allow_address, allow_size }
ReadOnlyAllow(d, sub, addr, size) == Syscall("ReadOnlyAllow", d, sub, addr, size)

SyscallKinds == {"Yield", "Exit", "Memop", "Subscribe", "Command",
                 "ReadWriteAllow", "ReadOnlyAllow"}

\* YieldCall::Wait as usize
YieldCall_Wait == 1

\* What one syscall did, observed: reset when the syscall is dispatched.
\* syscall: the syscall dispatched; filter_asked, filtered: whether the platform
\* filter was consulted, and the error it rejected with; driver: a driver
\* operation was invoked; tasks_before: the task queue when the dispatch began;
\* prev_upcall: what the history says was subscribed before; set_byte: the
\* (address, byte) written to process memory.
\* Two fields outlive the syscall: stale_delivered (an upcall queued before a
\* Subscribe of its id was delivered after it) and subscribed (per slot, the
\* process identifier and, per driver, the upcall its last successful Subscribe
\* of number 0 passed).
ObsReset(o) ==
    [syscall |-> None, filter_asked |-> FALSE, filtered |-> None, driver |-> FALSE,
     tasks_before |-> << >>, prev_upcall |-> NullUpcall, set_byte |-> None,
     exit |-> None,
     stale_delivered |-> o.stale_delivered, subscribed |-> o.subscribed]

SubscribedNone == [id |-> -1, button |-> NullUpcall, usb |-> NullUpcall]

ObsInit ==
    ObsReset([stale_delivered |-> FALSE,
              subscribed |-> [i \in ProcIdx |-> SubscribedNone]])

\* The history of successful subscriptions of the process now in slot i.
Subscribed(k, i) ==
    IF k.obs.subscribed[i].id = Proc(k, i).id THEN k.obs.subscribed[i]
    ELSE [SubscribedNone EXCEPT !.id = Proc(k, i).id]

\* Platform::with_driver: the driver registered under a driver number.
with_driver(driver_number) ==
    CASE driver_number = BUTTON_DRIVER_NUM -> Some("button")
      [] driver_number = USB_DRIVER_NUM -> Some("usb")
      [] OTHER -> None

\* Mutant: every syscall is passed to the filter.
filterable_all(syscall) == TRUE

\* The first match of handle_syscall: which syscalls the platform filter sees.
filterable(syscall) == syscall.kind \notin {"Yield", "Exit", "Memop"}

\* Marks the queued upcalls of id as queued before a Subscribe (history only).
mark_pending_upcalls(k, i, id) ==
    [k EXCEPT !.processes[i] = Some([Proc(k, i) EXCEPT !.tasks =
        [j \in DOMAIN @ |->
            IF IsUpcallFor(@[j], id) THEN [@[j] EXCEPT !.stale = TRUE] ELSE @[j]]])]

\* Mutant: a Yield returns at once whenever no task is queued, wait or not.
handle_yield_never_waits(k, i, which, address) ==
    IF which > YieldCall_Wait THEN k
    ELSE LET return_now == ~has_tasks(k, i)
         IN  IF return_now
             THEN [k EXCEPT !.obs.set_byte = Some(<< address, 0 >>)]
             ELSE set_yielded_state(
                    [k EXCEPT !.obs.set_byte = Some(<< address, 1 >>)], i)

\* Mutant: the Yield arm without the early return for an invalid selector.
handle_yield_any_selector(k, i, which, address) ==
    LET wait == which = YieldCall_Wait
        return_now == ~wait /\ ~has_tasks(k, i)
    IN  IF return_now
        THEN [k EXCEPT !.obs.set_byte = Some(<< address, 0 >>)]
        ELSE set_yielded_state(
               [k EXCEPT !.obs.set_byte = Some(<< address, 1 >>)], i)

\* The Yield arm.
handle_yield(k, i, which, address) ==
    IF which > YieldCall_Wait THEN k
    ELSE LET wait == which = YieldCall_Wait
             return_now == ~wait /\ ~has_tasks(k, i)
         IN  IF return_now
             THEN [k EXCEPT !.obs.set_byte = Some(<< address, 0 >>)]
             ELSE set_yielded_state(
                    [k EXCEPT !.obs.set_byte = Some(<< address, 1 >>)], i)

\* Mutant: the Subscribe arm without the removal of the pending upcalls.
handle_subscribe_keeps_pending(k, i, driver_number, subdriver_number, upcall_ptr, appdata) ==
    LET upcall_id == UpcallId(driver_number, subdriver_number)
        k1 == mark_pending_upcalls(k, i, upcall_id)
        drv == IF driver_number = BUTTON_DRIVER_NUM THEN "button" ELSE "usb"
        hist == Subscribed(k, i)
        upcall == IF upcall_ptr = 0 THEN NullUpcall
                  ELSE [fn |-> upcall_ptr, ud |-> appdata]
        d == with_driver(driver_number)
        res == IF d = Some("button")
               THEN Button_subscribe(k1, subdriver_number, upcall, processid(k1, i))
               ELSE Usb_subscribe(k1, subdriver_number, upcall, processid(k1, i))
        rval == IF ~IsSome(d)
                THEN SubscribeFailure("NODEVICE", upcall.fn, upcall.ud)
                ELSE IF res.ok
                THEN SubscribeSuccess(res.upcall.fn, res.upcall.ud)
                ELSE SubscribeFailure(res.code, res.upcall.fn, res.upcall.ud)
        k3 == IF IsSome(d) THEN [res.k EXCEPT !.obs.driver = TRUE] ELSE k1
        k4 == IF IsSome(d) /\ res.ok /\ subdriver_number = 0
              THEN [k3 EXCEPT !.obs.subscribed[i] = [hist EXCEPT ![drv] = upcall]]
              ELSE k3
    IN  set_syscall_return_value(k4, i, rval)

\* Mutant: the Subscribe arm removing the pending upcalls only for a non-null
\* pointer.
handle_subscribe_null_keeps_pending(k, i, driver_number, subdriver_number, upcall_ptr, appdata) ==
    LET upcall_id == UpcallId(driver_number, subdriver_number)
        k1 == IF upcall_ptr = 0 THEN k
              ELSE remove_pending_upcalls(mark_pending_upcalls(k, i, upcall_id), i,
                                          upcall_id)
        drv == IF driver_number = BUTTON_DRIVER_NUM THEN "button" ELSE "usb"
        hist == Subscribed(k, i)
        upcall == IF upcall_ptr = 0 THEN NullUpcall
                  ELSE [fn |-> upcall_ptr, ud |-> appdata]
        d == with_driver(driver_number)
        res == IF d = Some("button")
               THEN Button_subscribe(k1, subdriver_number, upcall, processid(k1, i))
               ELSE Usb_subscribe(k1, subdriver_number, upcall, processid(k1, i))
        rval == IF ~IsSome(d)
                THEN SubscribeFailure("NODEVICE", upcall.fn, upcall.ud)
                ELSE IF res.ok
                THEN SubscribeSuccess(res.upcall.fn, res.upcall.ud)
                ELSE SubscribeFailure(res.code, res.upcall.fn, res.upcall.ud)
        k3 == IF IsSome(d) THEN [res.k EXCEPT !.obs.driver = TRUE] ELSE k1
        k4 == IF IsSome(d) /\ res.ok /\ subdriver_number = 0
              THEN [k3 EXCEPT !.obs.subscribed[i] = [hist EXCEPT ![drv] = upcall]]
              ELSE k3
    IN  set_syscall_return_value(k4, i, rval)

\* The Subscribe arm.
handle_subscribe(k, i, driver_number, subdriver_number, upcall_ptr, appdata) ==
    LET upcall_id == UpcallId(driver_number, subdriver_number)
        k1 == remove_pending_upcalls(mark_pending_upcalls(k, i, upcall_id), i,
                                     upcall_id)
        drv == IF driver_number = BUTTON_DRIVER_NUM THEN "button" ELSE "usb"
        hist == Subscribed(k, i)
        upcall == IF upcall_ptr = 0 THEN NullUpcall
                  ELSE [fn |-> upcall_ptr, ud |-> appdata]
        d == with_driver(driver_number)
        res == IF d = Some("button")
               THEN Button_subscribe(k1, subdriver_number, upcall, processid(k1, i))
               ELSE Usb_subscribe(k1, subdriver_number, upcall, processid(k1, i))
        rval == IF ~IsSome(d)
                THEN SubscribeFailure("NODEVICE", upcall.fn, upcall.ud)
                ELSE IF res.ok
                THEN SubscribeSuccess(res.upcall.fn, res.upcall.ud)
                ELSE SubscribeFailure(res.code, res.upcall.fn, res.upcall.ud)
        k3 == IF IsSome(d) THEN [res.k EXCEPT !.obs.driver = TRUE] ELSE k1
        k4 == IF IsSome(d) /\ res.ok /\ subdriver_number = 0
              THEN [k3 EXCEPT !.obs.subscribed[i] = [hist EXCEPT ![drv] = upcall]]
              ELSE k3
    IN  set_syscall_return_value(k4, i, rval)

\* The Command arm; level is the activation state a button pin reads.
handle_command(k, i, driver_number, subdriver_number, arg0, arg1, level) ==
    LET d == with_driver(driver_number)
        cres == IF d = Some("button")
                THEN Button_command(k, subdriver_number, arg0, processid(k, i), level)
                ELSE Usb_command(k, subdriver_number, processid(k, i), serving_app)
    IN  IF IsSome(d)
        THEN set_syscall_return_value([cres.k EXCEPT !.obs.driver = TRUE], i, cres.res)
        ELSE set_syscall_return_value(k, i, Failure("NODEVICE"))

\* The two Allow arms: neither driver overrides the Driver trait's allow
\* operations, which reject with NOSUPPORT and hand the slice back.
handle_allow(k, i, rw, driver_number, allow_address, allow_size, slice_ok) ==
    LET d == with_driver(driver_number)
        code == IF ~IsSome(d) THEN "NODEVICE"
                ELSE IF slice_ok THEN "NOSUPPORT" ELSE "INVAL"
        res == IF rw THEN AllowReadWriteFailure(code, allow_address, allow_size)
               ELSE AllowReadOnlyFailure(code, allow_address, allow_size)
        k1 == IF IsSome(d) /\ slice_ok THEN [k EXCEPT !.obs.driver = TRUE] ELSE k
    IN  set_syscall_return_value(k1, i, res)

\* The call of the process the Exit arm makes, with its argument (history).
ExitCall(fn, completion_code) == Some([fn |-> fn, code |-> completion_code])

\* Mutant: an invalid variant of Exit is ignored.
handle_exit_ignores_invalid(k, i, which, completion_code, restart_ok) ==
    CASE which = 0 ->
            [terminate(k, i) EXCEPT !.obs.exit = ExitCall("terminate", completion_code)]
      [] which = 1 ->
            [try_restart(k, i, restart_ok) EXCEPT
                !.obs.exit = ExitCall("try_restart", completion_code)]
      [] OTHER -> k

\* Mutant: an invalid variant of Exit ends the process.
handle_exit_invalid_terminates(k, i, which, completion_code, restart_ok) ==
    CASE which = 1 ->
            [try_restart(k, i, restart_ok) EXCEPT
                !.obs.exit = ExitCall("try_restart", completion_code)]
      [] OTHER ->
            [terminate(k, i) EXCEPT !.obs.exit = ExitCall("terminate", completion_code)]

\* The Exit arm.
handle_exit(k, i, which, completion_code, restart_ok) ==
    CASE which = 0 ->
            [terminate(k, i) EXCEPT !.obs.exit = ExitCall("terminate", completion_code)]
      [] which = 1 ->
            [try_restart(k, i, restart_ok) EXCEPT
                !.obs.exit = ExitCall("try_restart", completion_code)]
      [] OTHER -> set_syscall_return_value(k, i, Failure("NOSUPPORT"))

\* env: the platform's and the hardware's answers during this syscall:
\* filter (None = Ok, Some(e) = Err(e)), level, slice_ok, restart_ok.
handle_syscall(k0, i, syscall, env) ==
    LET prev == IF syscall.kind # "Subscribe" THEN NullUpcall
                ELSE IF syscall.n = BUTTON_DRIVER_NUM THEN Subscribed(k0, i).button
                ELSE Subscribed(k0, i).usb
        k == [k0 EXCEPT !.obs = [ObsReset(@) EXCEPT
                                    !.syscall = Some(syscall),
                                    !.tasks_before = Proc(k0, i).tasks,
                                    !.prev_upcall = prev]]
    IN  IF filterable(syscall) /\ IsSome(env.filter)
        THEN set_syscall_return_value(
                [k EXCEPT !.obs.filter_asked = TRUE, !.obs.filtered = env.filter], i,
                Failure(Unwrap(env.filter)))
        ELSE LET kf == [k EXCEPT !.obs.filter_asked = filterable(syscall)]
             IN  CASE syscall.kind = "Memop" ->
                        set_syscall_return_value(kf, i, MemopReturn)
                   [] syscall.kind = "Yield" ->
                        handle_yield(kf, i, syscall.n, syscall.a0)
                   [] syscall.kind = "Subscribe" ->
                        handle_subscribe(kf, i, syscall.n, syscall.sub, syscall.a0,
                                         syscall.a1)
                   [] syscall.kind = "Command" ->
                        handle_command(kf, i, syscall.n, syscall.sub, syscall.a0,
                                       syscall.a1, env.level)
                   [] syscall.kind = "ReadWriteAllow" ->
                        handle_allow(kf, i, TRUE, syscall.n, syscall.a0, syscall.a1,
                                     env.slice_ok)
                   [] syscall.kind = "ReadOnlyAllow" ->
                        handle_allow(kf, i, FALSE, syscall.n, syscall.a0, syscall.a1,
                                     env.slice_ok)
                   [] syscall.kind = "Exit" ->
                        handle_exit(kf, i, syscall.n, syscall.a0, env.restart_ok)

(***************************************************************************)
(* The scheduler timer: the chip's one, or the null timer that a           *)
(* cooperative run (timeslice None) uses instead.                          *)
(***************************************************************************)
TimerReset == [mode |-> "reset", rem |-> 0, armed |-> FALSE]

\* Which timer do_process uses: TRUE for the null timer.
uses_null_timer(timeslice_us) == timeslice_us = None

timer_reset(t, timeslice_us) ==
    IF uses_null_timer(timeslice_us) THEN t ELSE TimerReset

timer_start(t, timeslice_us) ==
    IF uses_null_timer(timeslice_us) THEN t
    ELSE [mode |-> "running", rem |-> Unwrap(timeslice_us), armed |-> FALSE]

timer_arm(t, timeslice_us) ==
    IF uses_null_timer(timeslice_us) THEN t ELSE [t EXCEPT !.armed = TRUE]

timer_disarm(t, timeslice_us) ==
    IF uses_null_timer(timeslice_us) THEN t ELSE [t EXCEPT !.armed = FALSE]

get_remaining_us(t, timeslice_us) ==
    IF uses_null_timer(timeslice_us) THEN Some(NullTimerRemaining)
    ELSE IF t.mode = "expired" THEN None ELSE Some(t.rem)

\* Timeslices a scheduling decision may carry, and the instants the model's
\* clock stops at on its way down.
Timeslices ==
    {MIN_QUANTA_THRESHOLD_US - 1, MIN_QUANTA_THRESHOLD_US,
     MIN_QUANTA_THRESHOLD_US + 1, MaxTimeslice}
TimePoints ==
    {0, MIN_QUANTA_THRESHOLD_US, MIN_QUANTA_THRESHOLD_US + 1, MaxTimeslice}

(***************************************************************************)
(* The CPU: the app MPU, with the count of enables minus disables, and the *)
(* processes whose user code it is executing.                              *)
(***************************************************************************)
enable_app_mpu(c) == [c EXCEPT !.mpu_enabled = TRUE, !.mpu_balance = @ + 1]

disable_app_mpu(c) == [c EXCEPT !.mpu_enabled = FALSE, !.mpu_balance = @ - 1]

\* The CPU enters user mode in process i, and comes back to the kernel.
switch_to(c, i) == [c EXCEPT !.user_mode = @ \cup {i}]

switch_back(c, i) == [c EXCEPT !.user_mode = @ \ {i}]

CpuInit == [mpu_enabled |-> FALSE, mpu_balance |-> 0, user_mode |-> {}]

(***************************************************************************)
(* Scheduler trait: the default hooks.                                     *)
(***************************************************************************)
do_kernel_work_now == pending_irq \/ deferred

\* Mutant: the process is continued whatever is pending.
continue_process_always == TRUE

continue_process == ~(pending_irq \/ deferred)

\* SchedulingDecision
TrySleep == [kind |-> "TrySleep", appid |-> ProcessId(0, 0), timeslice_us |-> None]
RunProcess(appid, timeslice_us) ==
    [kind |-> "RunProcess", appid |-> appid, timeslice_us |-> timeslice_us]

Decisions ==
    {TrySleep} \cup
    {RunProcess(ProcessId(i, id), ts) :
        i \in ProcIdx \cup {0}, id \in 0 .. (MaxIdentifier - 1),
        ts \in {None} \cup {Some(t) : t \in Timeslices}}

(***************************************************************************)
(* Ghost record of one kernel-loop iteration.                              *)
(***************************************************************************)
\* kwork_now: what do_kernel_work_now returned; kwork, next, ran, slept, result:
\* calls of execute_kernel_work, scheduler.next, do_process, chip.sleep and
\* scheduler.result; decision: what next returned; expiry: which check of
\* do_process found the timeslice expired; switched: a switch_to happened.
IterNone ==
    [kwork_now |-> FALSE, kwork |-> 0, next |-> 0, ran |-> 0, slept |-> 0,
     result |-> 0, decision |-> "none", expiry |-> "none", switched |-> FALSE]

DpNone == [proc |-> 0, timeslice_us |-> None, return_reason |-> "NoWorkLeft"]
CsrNone == [reason |-> "none", syscall |-> Yield(0, 0)]
SchedNone == [reason |-> "none", time |-> None]

\* The process do_process is running.
CurProc == dp.proc

(***************************************************************************)
(* kernel_loop_operation                                                   *)
(***************************************************************************)
\* The iteration starts: the watchdog is tickled, do_kernel_work_now is asked.
\* On true, execute_kernel_work starts with service_pending_interrupts, whose
\* bottom halves are the handler h.
KernelWorkEffect(k, h) ==
    CASE h.kind = "fired" -> Button_fired(k, h.pin, h.level)
      [] h.kind = "stop" -> stop(k, h.proc)
      [] h.kind = "resume" -> resume(k, h.proc)
      [] h.kind = "ipc" ->
            enqueue_task(k, h.proc,
                [kind |-> "IPC", id |-> KernelTaskId, fn |-> 0, a0 |-> 0, a1 |-> 0,
                 ud |-> 0, stale |-> FALSE])
      [] OTHER -> k

Handler(kind, proc, pin, level) ==
    [kind |-> kind, proc |-> proc, pin |-> pin, level |-> level]

LoopBeginKernelWork(h, sets_deferred) ==
    /\ UNCHANGED grants
    /\ pc = "idle"
    /\ do_kernel_work_now
    /\ h.kind # "none" => pending_irq
    /\ h.kind = "fired" => pin_enabled[h.pin]
    /\ h.kind \in {"stop", "resume", "ipc"} => IsSome(processes[h.proc])
    /\ pc' = "kwork"
    /\ pending_irq' = FALSE
    /\ deferred' = (deferred \/ (pending_irq /\ sets_deferred))
    /\ Commit(KernelWorkEffect(Cur, h))
    /\ iter' = [iter EXCEPT !.kwork_now = TRUE, !.kwork = @ + 1]
    /\ UNCHANGED << atomic, cpu, timer, dp, csr, sched, serving_app >>

\* Mutant: after the kernel work the iteration goes on to ask the scheduler.
KernelWorkDeferredCalls_FallsThrough(interrupted) ==
    /\ UNCHANGED grants
    /\ pc = "kwork"
    /\ interrupted => (deferred /\ ~pending_irq)
    /\ pc' = "next"
    /\ deferred' = (deferred /\ (pending_irq \/ interrupted))
    /\ pending_irq' = (pending_irq \/ interrupted)
    /\ UNCHANGED << processes, work, identifier_max, atomic, cpu, timer, dp, csr,
                    sched, iter, button_apps, pin_enabled, usb_apps, usbc,
                    serving_app, obs >>

\* call_global_instance_while(|| !chip.has_pending_interrupts()): deferred calls
\* are run until none is left or an interrupt is pending; interrupted says
\* that an interrupt became pending while some were still left.
KernelWorkDeferredCalls(interrupted) ==
    /\ UNCHANGED grants
    /\ pc = "kwork"
    /\ interrupted => (deferred /\ ~pending_irq)
    /\ pc' = "done"
    /\ deferred' = (deferred /\ (pending_irq \/ interrupted))
    /\ pending_irq' = (pending_irq \/ interrupted)
    /\ UNCHANGED << processes, work, identifier_max, atomic, cpu, timer, dp, csr,
                    sched, iter, button_apps, pin_enabled, usb_apps, usbc,
                    serving_app, obs >>

\* do_kernel_work_now returned false: the scheduler will be asked for a process.
LoopBeginNoKernelWork ==
    /\ UNCHANGED grants
    /\ pc = "idle"
    /\ ~do_kernel_work_now
    /\ pc' = "next"
    /\ iter' = [iter EXCEPT !.kwork_now = do_kernel_work_now]
    /\ UNCHANGED << processes, work, identifier_max, pending_irq, deferred, atomic,
                    cpu, timer, dp, csr, sched, button_apps, pin_enabled,
                    usb_apps, usbc, serving_app, obs >>

\* scheduler.next returned RunProcess for an id process_map_or does not find.
NextStaleProcess(d) ==
    /\ UNCHANGED grants
    /\ pc = "next"
    /\ d.kind = "RunProcess"
    /\ ~process_map_or(Cur, d.appid)
    /\ pc' = "done"
    /\ iter' = [iter EXCEPT !.next = @ + 1, !.decision = "stale"]
    /\ UNCHANGED << processes, work, identifier_max, pending_irq, deferred, atomic,
                    cpu, timer, dp, csr, sched, button_apps, pin_enabled,
                    usb_apps, usbc, serving_app, obs >>

\* scheduler.next returned RunProcess for a process: do_process starts
\* (timer chosen, reset and started).
NextRunProcess(d) ==
    /\ UNCHANGED grants
    /\ pc = "next"
    /\ d.kind = "RunProcess"
    /\ process_map_or(Cur, d.appid)
    /\ pc' = "dp_loop"
    /\ dp' = [proc |-> d.appid.index, timeslice_us |-> d.timeslice_us,
              return_reason |-> "NoWorkLeft"]
    /\ timer' = timer_start(timer_reset(timer, d.timeslice_us), d.timeslice_us)
    /\ iter' = [iter EXCEPT !.next = @ + 1, !.ran = @ + 1, !.decision = "run"]
    /\ UNCHANGED << processes, work, identifier_max, pending_irq, deferred, atomic,
                    cpu, csr, sched, button_apps, pin_enabled, usb_apps, usbc,
                    serving_app, obs >>

\* scheduler.next returned TrySleep.
NextTrySleep(no_sleep) ==
    /\ UNCHANGED grants
    /\ pc = "next"
    /\ pc' = IF no_sleep THEN "done" ELSE "trysleep"
    /\ iter' = [iter EXCEPT !.next = @ + 1, !.decision = "trysleep"]
    /\ UNCHANGED << processes, work, identifier_max, pending_irq, deferred, atomic,
                    cpu, timer, dp, csr, sched, button_apps, pin_enabled,
                    usb_apps, usbc, serving_app, obs >>

\* Mutant: the sleep is not conditioned on pending work.
may_sleep_unchecked == TRUE

\* The condition checked inside chip.atomic before sleeping.
may_sleep == ~pending_irq /\ ~deferred

\* chip.atomic(|| if ... { suspend; sleep; resume }): up to the sleep call.
AtomicSleep ==
    /\ UNCHANGED grants
    /\ pc = "trysleep"
    /\ IF may_sleep
       THEN /\ pc' = "sleep"
            /\ atomic' = TRUE
            /\ iter' = [iter EXCEPT !.slept = @ + 1]
       ELSE /\ pc' = "done"
            /\ UNCHANGED << atomic, iter >>
    /\ UNCHANGED << processes, work, identifier_max, pending_irq, deferred,
                    cpu, timer, dp, csr, sched, button_apps, pin_enabled,
                    usb_apps, usbc, serving_app, obs >>

\* An interrupt wakes the chip: sleep returns, the watchdog resumes, the atomic
\* section ends.
Wake ==
    /\ UNCHANGED grants
    /\ pc = "sleep"
    /\ pc' = "done"
    /\ atomic' = FALSE
    /\ pending_irq' = TRUE
    /\ UNCHANGED << processes, work, identifier_max, deferred, cpu, timer, dp, csr,
                    sched, iter, button_apps, pin_enabled, usb_apps, usbc,
                    serving_app, obs >>

\* kernel_loop_operation returns; kernel_loop calls it again.
LoopEnd ==
    /\ UNCHANGED grants
    /\ pc = "done"
    /\ pc' = "idle"
    /\ iter' = IterNone
    /\ sched' = SchedNone
    /\ dp' = DpNone
    /\ UNCHANGED << processes, work, identifier_max, pending_irq, deferred, atomic,
                    cpu, timer, csr, button_apps, pin_enabled, usb_apps, usbc,
                    serving_app, obs >>

(***************************************************************************)
(* do_process                                                              *)
(***************************************************************************)
\* The check at the top of the inner loop: out of time.
\* The timeslice check with a threshold one microsecond higher.
stop_running_above(remaining) ==
    IF IsSome(remaining) THEN Unwrap(remaining) <= MIN_QUANTA_THRESHOLD_US + 1
    ELSE TRUE

\* The timeslice check with < in place of <=.
stop_running_below(remaining) ==
    IF IsSome(remaining) THEN Unwrap(remaining) < MIN_QUANTA_THRESHOLD_US ELSE TRUE

\* Mutant: the top of the inner loop never finds the timeslice used up.
stop_running_never(remaining) == FALSE

stop_running(remaining) ==
    IF IsSome(remaining) THEN Unwrap(remaining) <= MIN_QUANTA_THRESHOLD_US ELSE TRUE

\* Mutant: every break reports KernelPreemption.
Break_AlwaysPreempted(reason) ==
    /\ pc' = "dp_exit"
    /\ dp' = [dp EXCEPT !.return_reason = "KernelPreemption"]

\* Leaves the inner loop with a return reason.
Break(reason) ==
    /\ pc' = "dp_exit"
    /\ dp' = [dp EXCEPT !.return_reason = reason]

\* A pass of the inner loop that ends do_process without touching the process.
LoopStop(reason, expiry) ==
    /\ Break(reason)
    /\ iter' = [iter EXCEPT !.expiry = expiry]
    /\ Commit([Cur EXCEPT !.obs = ObsReset(@)])
    /\ UNCHANGED << cpu, timer >>

\* The state of the process decides what one pass of the inner loop does.
\* Running: set up and enable the MPU, arm the timer, switch to the process.
LoopRunning ==
    /\ pc' = "user"
    /\ cpu' = switch_to(enable_app_mpu(cpu), CurProc)
    /\ timer' = timer_arm(timer, dp.timeslice_us)
    /\ iter' = [iter EXCEPT !.switched = TRUE]
    /\ Commit([Cur EXCEPT !.obs = ObsReset(@)])
    /\ UNCHANGED << dp >>

\* The Yielded arm taking the task queued last instead of the one queued first.
LoopYielded_TakesLast ==
    LET i == CurProc
        q == Proc(Cur, i).tasks
        t == IF q = << >> THEN None ELSE Some(q[Len(q)])
        k1 == decrement_work(
                [Cur EXCEPT !.processes[i] =
                    Some([Proc(Cur, i) EXCEPT !.tasks = SubSeq(q, 1, Len(q) - 1)])])
        k2 == IF Unwrap(t).kind = "FunctionCall"
              THEN set_process_function(k1, i, Unwrap(t))
              ELSE k1
    IN  IF t = None
        THEN /\ pc' = "dp_exit"
             /\ Commit([Cur EXCEPT !.obs = ObsReset(@)])
             /\ UNCHANGED << dp, cpu, timer, iter >>
        ELSE /\ pc' = "dp_loop"
             /\ Commit([k2 EXCEPT !.obs = ObsReset(@)])
             /\ UNCHANGED << dp, cpu, timer, iter >>

\* Yielded or Unstarted: dequeue one task and set the process up to run it.
LoopYielded ==
    LET i == CurProc
        t == peek_task(Cur, i)
        k1 == dequeue_task(Cur, i)
        k2 == IF Unwrap(t).kind = "FunctionCall"
              THEN set_process_function(k1, i, Unwrap(t))
              ELSE k1
    IN  IF t = None
        THEN /\ pc' = "dp_exit"
             /\ Commit([Cur EXCEPT !.obs = ObsReset(@)])
             /\ UNCHANGED << dp, cpu, timer, iter >>
        ELSE /\ pc' = "dp_loop"
             /\ Commit([k2 EXCEPT !.obs =
                    [ObsReset(@) EXCEPT !.stale_delivered =
                        @ \/ (Unwrap(t).kind = "FunctionCall" /\ Unwrap(t).stale)]])
             /\ UNCHANGED << dp, cpu, timer, iter >>

\* Faulted or Terminated: "Attempted to schedule a faulty process".
LoopPanic ==
    /\ pc' = "panic"
    /\ Commit([Cur EXCEPT !.obs = ObsReset(@)])
    /\ UNCHANGED << dp, cpu, timer, iter >>

\* The inner loop without the check of process.ready().
ProcessLoop_NoReadyCheck ==
    /\ UNCHANGED grants
    /\ pc = "dp_loop"
    /\ LET i == CurProc
           st == get_state(Cur, i)
       IN  IF stop_running(get_remaining_us(timer, dp.timeslice_us))
           THEN LoopStop("TimesliceExpired", "top")
           ELSE IF ~continue_process THEN LoopStop("KernelPreemption", "none")
           ELSE IF st = "Running" THEN LoopRunning
           ELSE IF st \in {"Yielded", "Unstarted"} THEN LoopYielded
           ELSE IF st \in {"Faulted", "Terminated"} THEN LoopPanic
           ELSE LoopStop("Stopped", "none")
    /\ UNCHANGED << pending_irq, deferred, atomic, csr, sched, serving_app >>

\* Mutant: the inner loop switching to a Yielded or Unstarted process as it is.
ProcessLoop_SwitchesToYielded ==
    /\ UNCHANGED grants
    /\ pc = "dp_loop"
    /\ LET i == CurProc
           st == get_state(Cur, i)
       IN  IF stop_running(get_remaining_us(timer, dp.timeslice_us))
           THEN LoopStop("TimesliceExpired", "top")
           ELSE IF ~continue_process THEN LoopStop("KernelPreemption", "none")
           ELSE IF ~ready(Cur, i) THEN LoopStop("NoWorkLeft", "none")
           ELSE IF st = "Running" THEN LoopRunning
           ELSE IF st \in {"Yielded", "Unstarted"} THEN LoopRunning
           ELSE IF st \in {"Faulted", "Terminated"} THEN LoopPanic
           ELSE LoopStop("Stopped", "none")
    /\ UNCHANGED << pending_irq, deferred, atomic, csr, sched, serving_app >>

\* Mutant: the inner loop reporting a faulted process as StoppedFaulted.
ProcessLoop_ReportsFault ==
    /\ UNCHANGED grants
    /\ pc = "dp_loop"
    /\ LET i == CurProc
           st == get_state(Cur, i)
       IN  IF stop_running(get_remaining_us(timer, dp.timeslice_us))
           THEN LoopStop("TimesliceExpired", "top")
           ELSE IF ~continue_process THEN LoopStop("KernelPreemption", "none")
           ELSE IF ~ready(Cur, i)
           THEN LoopStop(IF st = "Faulted" THEN "StoppedFaulted" ELSE "NoWorkLeft",
                         "none")
           ELSE IF st = "Running" THEN LoopRunning
           ELSE IF st \in {"Yielded", "Unstarted"} THEN LoopYielded
           ELSE IF st \in {"Faulted", "Terminated"} THEN LoopPanic
           ELSE LoopStop("Stopped", "none")
    /\ UNCHANGED << pending_irq, deferred, atomic, csr, sched, serving_app >>

\* One pass of the inner loop, up to the switch to the process or the break.
ProcessLoop ==
    /\ UNCHANGED grants
    /\ pc = "dp_loop"
    /\ LET i == CurProc
           st == get_state(Cur, i)
       IN  IF stop_running(get_remaining_us(timer, dp.timeslice_us))
           THEN LoopStop("TimesliceExpired", "top")
           ELSE IF ~continue_process THEN LoopStop("KernelPreemption", "none")
           ELSE IF ~ready(Cur, i) THEN LoopStop("NoWorkLeft", "none")
           ELSE IF st = "Running" THEN LoopRunning
           ELSE IF st \in {"Yielded", "Unstarted"} THEN LoopYielded
           ELSE IF st \in {"Faulted", "Terminated"} THEN LoopPanic
           ELSE LoopStop("Stopped", "none")
    /\ UNCHANGED << pending_irq, deferred, atomic, csr, sched, serving_app >>

\* Mutant: the MPU is left enabled when switch_to returns.
SwitchReturn_MpuLeftOn(reason, syscall) ==
    /\ UNCHANGED grants
    /\ pc = "user"
    /\ pc' = "csr"
    /\ csr' = [reason |-> reason, syscall |-> syscall]
    /\ timer' = timer_disarm(timer, dp.timeslice_us)
    /\ cpu' = switch_back(cpu, CurProc)
    /\ UNCHANGED << processes, work, identifier_max, pending_irq, deferred, atomic,
                    dp, sched, iter, button_apps, pin_enabled, usb_apps, usbc,
                    serving_app, obs >>

\* switch_to returns with a reason; the timer is disarmed and the MPU disabled
\* before the reason is looked at.
SwitchReturn(reason, syscall) ==
    /\ UNCHANGED grants
    /\ pc = "user"
    /\ pc' = "csr"
    /\ csr' = [reason |-> reason, syscall |-> syscall]
    /\ timer' = timer_disarm(timer, dp.timeslice_us)
    /\ cpu' = disable_app_mpu(switch_back(cpu, CurProc))
    /\ processes' = IF reason = "SyscallFired"
                    THEN [processes EXCEPT ![CurProc] =
                            Some([Unwrap(@) EXCEPT !.retval = RvUnset(syscall.kind)])]
                    ELSE processes
    /\ UNCHANGED << work, identifier_max, pending_irq, deferred, atomic, dp, sched,
                    iter, button_apps, pin_enabled, usb_apps, usbc, serving_app,
                    obs >>

\* The process makes a syscall.
UserSyscall(syscall) == SwitchReturn("SyscallFired", syscall)

\* The process faults.
UserFault == SwitchReturn("Fault", CsrNone.syscall)

\* An interrupt (a pending one, or the armed timer's expiry) stops the process.
UserInterrupted ==
    /\ pending_irq \/ (timer.armed /\ timer.mode = "expired")
    /\ SwitchReturn("Interrupted", CsrNone.syscall)

\* switch_to returns no reason.
UserSwitchFailed == SwitchReturn("NoReason", CsrNone.syscall)

\* The fault hook's error is ignored.
fault_hook_result_ignored(k, i, hook_err) == k

\* The result of process_fault_hook: on an error the process deals with its
\* fault (set_fault_state).
fault_hook_result(k, i, hook_err) ==
    IF hook_err THEN set_fault_state(k, i) ELSE k

\* Mutant: an interrupt is never taken for the expiry of the timeslice.
timeslice_expiration_never(remaining) == FALSE

\* The test of the Interrupted arm: the interrupt was a timeslice expiration.
timeslice_expiration(remaining) == remaining = None

\* The match on the context switch reason.
HandleSwitchReason(env) ==
    /\ UNCHANGED grants
    /\ pc = "csr"
    /\ csr' = CsrNone
    /\ CASE csr.reason = "Fault" ->
              /\ Commit(fault_hook_result(Cur, CurProc, env.hook_err))
              /\ pc' = "dp_loop"
              /\ UNCHANGED << dp, iter >>
         [] csr.reason = "SyscallFired" ->
              /\ Commit(handle_syscall(Cur, CurProc, csr.syscall, env))
              /\ pc' = "dp_loop"
              /\ UNCHANGED << dp, iter >>
         [] csr.reason = "Interrupted" ->
              /\ IF timeslice_expiration(get_remaining_us(timer, dp.timeslice_us))
                 THEN /\ Break("TimesliceExpired")
                      /\ iter' = [iter EXCEPT !.expiry = "interrupted"]
                 ELSE pc' = "dp_loop" /\ UNCHANGED << dp, iter >>
              /\ UNCHANGED << processes, work, identifier_max, button_apps,
                              pin_enabled, usb_apps, usbc, obs >>
         [] OTHER ->
              /\ Commit(set_fault_state(Cur, CurProc))
              /\ pc' = "dp_loop"
              /\ UNCHANGED << dp, iter >>
    /\ UNCHANGED << pending_irq, deferred, atomic, cpu, timer, sched, serving_app >>

\* Mutant: the time is always computed from the timer.
time_executed_us_from_timer(timeslice_us, return_reason, remaining) ==
    IF timeslice_us = None THEN None
    ELSE IF IsSome(remaining)
    THEN Some(Unwrap(timeslice_us) - Unwrap(remaining))
    ELSE Some(Unwrap(timeslice_us))

\* A time is reported for a cooperative run too.
time_executed_us_always_some(timeslice_us, return_reason, remaining) ==
    IF timeslice_us = None THEN Some(0)
    ELSE IF return_reason = "TimesliceExpired" THEN Some(Unwrap(timeslice_us))
    ELSE IF IsSome(remaining)
    THEN Some(Unwrap(timeslice_us) - Unwrap(remaining))
    ELSE Some(Unwrap(timeslice_us))

\* Mutant: the subtraction with its operands exchanged.
time_executed_us_reversed(timeslice_us, return_reason, remaining) ==
    IF timeslice_us = None THEN None
    ELSE IF return_reason = "TimesliceExpired" THEN Some(Unwrap(timeslice_us))
    ELSE IF IsSome(remaining)
    THEN Some(Unwrap(remaining) - Unwrap(timeslice_us))
    ELSE Some(Unwrap(timeslice_us))

\* The time charged to the process.
time_executed_us(timeslice_us, return_reason, remaining) ==
    IF timeslice_us = None THEN None
    ELSE IF return_reason = "TimesliceExpired" THEN Some(Unwrap(timeslice_us))
    ELSE IF IsSome(remaining)
    THEN Some(Unwrap(timeslice_us) - Unwrap(remaining))
    ELSE Some(Unwrap(timeslice_us))

\* Mutant: after do_process the iteration goes on to the sleep path.
ProcessReturn_ThenSleeps ==
    /\ UNCHANGED grants
    /\ pc = "dp_exit"
    /\ pc' = "trysleep"
    /\ sched' = [reason |-> dp.return_reason,
                 time |-> time_executed_us(dp.timeslice_us, dp.return_reason,
                             get_remaining_us(timer, dp.timeslice_us))]
    /\ timer' = timer_reset(timer, dp.timeslice_us)
    /\ iter' = [iter EXCEPT !.result = @ + 1]
    /\ UNCHANGED << processes, work, identifier_max, pending_irq, deferred, atomic,
                    cpu, dp, csr, button_apps, pin_enabled, usb_apps, usbc,
                    serving_app, obs >>

\* Mutant: after do_process the same iteration asks the scheduler again.
ProcessReturn_AsksNextAgain ==
    /\ UNCHANGED grants
    /\ pc = "dp_exit"
    /\ pc' = "next"
    /\ sched' = [reason |-> dp.return_reason,
                 time |-> time_executed_us(dp.timeslice_us, dp.return_reason,
                             get_remaining_us(timer, dp.timeslice_us))]
    /\ timer' = timer_reset(timer, dp.timeslice_us)
    /\ iter' = [iter EXCEPT !.result = @ + 1]
    /\ UNCHANGED << processes, work, identifier_max, pending_irq, deferred, atomic,
                    cpu, dp, csr, button_apps, pin_enabled, usb_apps, usbc,
                    serving_app, obs >>

\* Mutant: do_process returns without the final reset of the timer.
ProcessReturn_NoTimerReset ==
    /\ UNCHANGED grants
    /\ pc = "dp_exit"
    /\ pc' = "done"
    /\ sched' = [reason |-> dp.return_reason,
                 time |-> time_executed_us(dp.timeslice_us, dp.return_reason,
                             get_remaining_us(timer, dp.timeslice_us))]
    /\ timer' = timer
    /\ iter' = [iter EXCEPT !.result = @ + 1]
    /\ UNCHANGED << processes, work, identifier_max, pending_irq, deferred, atomic,
                    cpu, dp, csr, button_apps, pin_enabled, usb_apps, usbc,
                    serving_app, obs >>

\* After the inner loop: compute the time, reset the timer, return; the kernel
\* loop hands the result to scheduler.result.
ProcessReturn ==
    /\ UNCHANGED grants
    /\ pc = "dp_exit"
    /\ pc' = "done"
    /\ sched' = [reason |-> dp.return_reason,
                 time |-> time_executed_us(dp.timeslice_us, dp.return_reason,
                             get_remaining_us(timer, dp.timeslice_us))]
    /\ timer' = timer_reset(timer, dp.timeslice_us)
    /\ iter' = [iter EXCEPT !.result = @ + 1]
    /\ UNCHANGED << processes, work, identifier_max, pending_irq, deferred, atomic,
                    cpu, dp, csr, button_apps, pin_enabled, usb_apps, usbc,
                    serving_app, obs >>

(***************************************************************************)
(* The hardware.                                                           *)
(***************************************************************************)
\* An interrupt becomes pending (not while interrupts are masked).
Interrupt ==
    /\ UNCHANGED grants
    /\ ~atomic
    /\ pc # "panic"
    /\ ~pending_irq
    /\ pending_irq' = TRUE
    /\ UNCHANGED << pc, processes, work, identifier_max, deferred, atomic, cpu,
                    timer, dp, csr, sched, iter, button_apps, pin_enabled,
                    usb_apps, usbc, serving_app, obs >>

\* The running scheduler timer counts down to a lower instant, or expires.
Tick(r) ==
    /\ UNCHANGED grants
    /\ timer.mode = "running"
    /\ r < timer.rem
    /\ timer' = IF r < 0 THEN [timer EXCEPT !.mode = "expired", !.rem = 0]
                ELSE [timer EXCEPT !.rem = r]
    /\ UNCHANGED << pc, processes, work, identifier_max, pending_irq, deferred,
                    atomic, cpu, dp, csr, sched, iter, button_apps, pin_enabled,
                    usb_apps, usbc, serving_app, obs >>

(***************************************************************************)
(* Inputs: what user processes, the platform and the hardware may do.      *)
(***************************************************************************)
Env(filter, hook_err, level, slice_ok, restart_ok) ==
    [filter |-> filter, hook_err |-> hook_err, level |-> level,
     slice_ok |-> slice_ok, restart_ok |-> restart_ok]

Levels == {0, 1}

Envs ==
    {Env(f, h, l, s, r) :
        f \in {None, Some("FAIL")}, h \in BOOLEAN, l \in Levels, s \in BOOLEAN,
        r \in BOOLEAN}

Syscalls ==
    {Yield(w, 0) : w \in 0 .. 2} \cup {Exit(w, 0) : w \in 0 .. 2}
    \cup {Memop(0, 0)}
    \cup {Subscribe(d, sub, ptr, ud) :
            d \in DriverNums, sub \in {0, 1}, ptr \in {0} \cup FnPtrs, ud \in AppData}
    \cup {Command(d, c, a0, 0) : d \in DriverNums, c \in 0 .. 4, a0 \in 0 .. NumPins}
    \cup {ReadWriteAllow(d, 0, 0, 0) : d \in DriverNums}
    \cup {ReadOnlyAllow(d, 0, 0, 0) : d \in DriverNums}

\* The answers that matter to the reason (and syscall) being handled; the others
\* are held at a default.
EnvsFor(c) ==
    LET sc == c.syscall
        is_sc == c.reason = "SyscallFired"
    IN  {e \in Envs :
            /\ e.hook_err => c.reason = "Fault"
            /\ IsSome(e.filter) => (is_sc /\ filterable(sc))
            /\ e.level # 0 =>
                (is_sc /\ sc.kind = "Command" /\ sc.n = BUTTON_DRIVER_NUM /\ sc.sub = 3)
            /\ ~e.slice_ok => (is_sc /\ sc.kind \in {"ReadWriteAllow", "ReadOnlyAllow"})
            /\ e.restart_ok => (is_sc /\ sc.kind = "Exit" /\ sc.n = 1)}

\* The syscalls the processes of the two-process system make.
SchedSyscalls ==
    {Yield(w, 0) : w \in 0 .. 2} \cup {Exit(w, 0) : w \in 0 .. 2}
    \cup {Memop(0, 0)}
    \cup {Subscribe(BUTTON_DRIVER_NUM, 0, 1, 0), Command(BUTTON_DRIVER_NUM, 1, 0, 0),
          Command(BUTTON_DRIVER_NUM, 2, 0, 0)}

SchedHandlers ==
    {Handler("none", 0, 0, 0), Handler("fired", 0, 0, 1)}
    \cup {Handler(kd, i, 0, 0) : kd \in {"stop", "resume", "ipc"}, i \in ProcIdx}

Handlers ==
    {Handler("none", 0, 0, 0)}
    \cup {Handler("fired", 0, pin, l) : pin \in Pins, l \in Levels}
    \cup {Handler(kd, i, 0, 0) : kd \in {"stop", "resume", "ipc"}, i \in ProcIdx}

(***************************************************************************)
(* The system: processes loaded, the kernel loop about to start.           *)
(***************************************************************************)
\* No call of the grant interface observed.
CallNone ==
    [fn |-> "none", finalized_before |-> FALSE, counter_before |-> 0,
     panicked |-> FALSE, ret |-> None]

\* The observation of a call of fn made in the current state.
Call(fn, panicked, ret) ==
    [fn |-> fn, finalized_before |-> grants_finalized,
     counter_before |-> grant_counter, panicked |-> panicked, ret |-> ret]

\* The grants the board created before it loaded the processes: one for each
\* of the two drivers.
NumGrants == Cardinality({"button", "usb"})

\* The state after boot with the slots of loaded holding a process each (every
\* process Unstarted, its init function queued) and the other slots empty.
InitWith(loaded) ==
    /\ pc = "idle"
    /\ processes = [i \in ProcIdx |->
                        IF i \in loaded THEN Some(NewProcess(i - 1)) ELSE None]
    /\ work = Cardinality(loaded)
    /\ identifier_max = Cardinality(loaded)
    /\ pending_irq = FALSE
    /\ deferred = FALSE
    /\ atomic = FALSE
    /\ cpu = CpuInit
    /\ timer = TimerReset
    /\ dp = DpNone
    /\ csr = CsrNone
    /\ sched = SchedNone
    /\ iter = IterNone
    /\ button_apps = [i \in ProcIdx |-> ButtonDefault]
    /\ pin_enabled = [p \in Pins |-> FALSE]
    /\ usb_apps = [i \in ProcIdx |-> UsbDefault]
    /\ usbc = [enabled |-> FALSE, attached |-> FALSE]
    /\ serving_app = None
    /\ obs = ObsInit
    /\ grant_counter = NumGrants
    /\ grants_finalized = TRUE
    /\ called = CallNone

\* The kernel loop with handlers H run by interrupts and syscalls SC made by
\* processes.
KernelNext(H, SC, D) ==
    \/ \E h \in H, sd \in BOOLEAN : LoopBeginKernelWork(h, sd)
    \/ \E b \in BOOLEAN : KernelWorkDeferredCalls(b)
    \/ LoopBeginNoKernelWork
    \/ \E d \in D : NextStaleProcess(d)
    \/ \E d \in D : NextRunProcess(d)
    \/ \E ns \in BOOLEAN : NextTrySleep(ns)
    \/ AtomicSleep
    \/ Wake
    \/ LoopEnd
    \/ ProcessLoop
    \/ \E sc \in SC : UserSyscall(sc)
    \/ UserFault
    \/ UserInterrupted
    \/ UserSwitchFailed
    \/ \E env \in EnvsFor(csr) : HandleSwitchReason(env)
    \/ ProcessReturn
    \/ Interrupt
    \/ \E r \in TimePoints \cup {-1} : Tick(r)

\* One process in slot 1, slot 2 empty.
Init == InitWith({1})

Next == KernelNext(SchedHandlers, SchedSyscalls, Decisions)

Spec == Init /\ [][Next]_vars

\* Two processes, in slots 1 and 2, that yield and exit, under a policy that
\* runs either of them, cooperatively or with the longest timeslice.
TwoSyscalls == {Yield(YieldCall_Wait, 0), Exit(0, 0)}

TwoHandlers == {Handler("none", 0, 0, 0)}

TwoDecisions ==
    {TrySleep, RunProcess(ProcessId(0, 0), None)} \cup
    {RunProcess(ProcessId(i, i - 1), ts) :
        i \in ProcIdx, ts \in {None, Some(MaxTimeslice)}}

InitTwo == InitWith(ProcIdx)

NextTwo == KernelNext(TwoHandlers, TwoSyscalls, TwoDecisions)

SpecTwo == InitTwo /\ [][NextTwo]_vars

(***************************************************************************)
(* Board initialisation: grants are created, processes are loaded, then    *)
(* the kernel loop starts.                                                 *)
(***************************************************************************)
\* The most grants a board creates.
MaxGrants == 2

\* Everything but the position of the boot code and the grant registry.
boot_rest ==
    << processes, work, identifier_max, pending_irq, deferred, atomic, cpu,
       timer, dp, csr, sched, iter, button_apps, pin_enabled, usb_apps, usbc,
       serving_app, obs >>

\* Kernel::new: nothing loaded, no grant created, grants not finalized.
InitBoot ==
    /\ pc = "boot"
    /\ processes = [i \in ProcIdx |-> None]
    /\ work = 0
    /\ identifier_max = 0
    /\ pending_irq = FALSE
    /\ deferred = FALSE
    /\ atomic = FALSE
    /\ cpu = CpuInit
    /\ timer = TimerReset
    /\ dp = DpNone
    /\ csr = CsrNone
    /\ sched = SchedNone
    /\ iter = IterNone
    /\ button_apps = [i \in ProcIdx |-> ButtonDefault]
    /\ pin_enabled = [p \in Pins |-> FALSE]
    /\ usb_apps = [i \in ProcIdx |-> UsbDefault]
    /\ usbc = [enabled |-> FALSE, attached |-> FALSE]
    /\ serving_app = None
    /\ obs = ObsInit
    /\ grant_counter = 0
    /\ grants_finalized = FALSE
    /\ called = CallNone

\* create_grant without the check of grants_finalized.
create_grant_unchecked ==
    /\ pc = "boot"
    /\ grant_counter < MaxGrants
    /\ grant_counter' = grant_counter + 1
    /\ called' = Call("create_grant", FALSE, Some(grant_counter))
    /\ UNCHANGED << pc, grants_finalized >>
    /\ UNCHANGED boot_rest

\* Kernel::create_grant: panics once the grants are finalized, otherwise
\* hands out the next grant index.
create_grant ==
    /\ pc = "boot"
    /\ IF grants_finalized
       THEN /\ pc' = "panic"
            /\ called' = Call("create_grant", TRUE, None)
            /\ UNCHANGED << grant_counter, grants_finalized >>
       ELSE /\ grant_counter < MaxGrants
            /\ grant_counter' = grant_counter + 1
            /\ called' = Call("create_grant", FALSE, Some(grant_counter))
            /\ UNCHANGED << pc, grants_finalized >>
    /\ UNCHANGED boot_rest

\* get_grant_count_and_finalize that flips the flag instead of setting it.
get_grant_count_and_finalize_flips(fn) ==
    /\ grants_finalized' = ~grants_finalized
    /\ called' = Call(fn, FALSE, Some(grant_counter))
    /\ UNCHANGED grant_counter

\* Kernel::get_grant_count_and_finalize: sets the flag and returns the count.
get_grant_count_and_finalize(fn) ==
    /\ grants_finalized' = TRUE
    /\ called' = Call(fn, FALSE, Some(grant_counter))
    /\ UNCHANGED grant_counter

\* Kernel::get_grant_count_and_finalize_external, called by the board.
get_grant_count_and_finalize_external ==
    /\ pc = "boot"
    /\ get_grant_count_and_finalize("get_grant_count_and_finalize_external")
    /\ UNCHANGED pc
    /\ UNCHANGED boot_rest

\* A process is created in the empty slot i: its memory is laid out for the
\* final number of grants, it gets a fresh identifier and its init function is
\* queued.
LoadProcess(i) ==
    /\ pc = "boot"
    /\ processes[i] = None
    /\ get_grant_count_and_finalize("get_grant_count_and_finalize")
    /\ processes' = [processes EXCEPT ![i] = Some(NewProcess(identifier_max))]
    /\ identifier_max' = identifier_max + 1
    /\ work' = work + 1
    /\ UNCHANGED << pc, pending_irq, deferred, atomic, cpu, timer, dp, csr,
                    sched, iter, button_apps, pin_enabled, usb_apps, usbc,
                    serving_app, obs >>

\* The board enters kernel_loop.
StartKernelLoop ==
    /\ pc = "boot"
    /\ pc' = "idle"
    /\ UNCHANGED grants
    /\ UNCHANGED boot_rest

NextBoot ==
    \/ create_grant
    \/ get_grant_count_and_finalize_external
    \/ \E i \in ProcIdx : LoadProcess(i)
    \/ StartKernelLoop
    \/ KernelNext(TwoHandlers, TwoSyscalls, TwoDecisions)

SpecBoot == InitBoot /\ [][NextBoot]_vars

\* One process that makes every syscall of Syscalls, with both drivers' events,
\* under a policy that runs it cooperatively or with the longest timeslice.
SysDecisions ==
    {TrySleep} \cup
    {RunProcess(ProcessId(1, id), ts) :
        id \in 0 .. (MaxIdentifier - 1), ts \in {None, Some(MaxTimeslice)}}

\* Two upcalls a process subscribes, and the null one.
UpcallX == [fn |-> 1, ud |-> 0]
UpcallY == [fn |-> 2, ud |-> 1]

SysSyscalls ==
    {Yield(w, 0) : w \in 0 .. 2} \cup {Exit(w, c) : w \in 0 .. 2, c \in AppData}
    \cup {Memop(0, 0)}
    \cup {Subscribe(d, 0, u.fn, u.ud) :
            d \in DriverNums, u \in {NullUpcall, UpcallX, UpcallY}}
    \cup {Subscribe(BUTTON_DRIVER_NUM, 1, UpcallX.fn, UpcallX.ud)}
    \cup {Command(BUTTON_DRIVER_NUM, 1, 0, 0), Command(USB_DRIVER_NUM, 1, 0, 0),
          Command(NO_DRIVER_NUM, 0, 0, 0)}
    \cup {ReadWriteAllow(d, 0, 0, 0) : d \in {BUTTON_DRIVER_NUM, NO_DRIVER_NUM}}
    \cup {ReadOnlyAllow(d, 0, 0, 0) : d \in {USB_DRIVER_NUM, NO_DRIVER_NUM}}

SysHandlers == {Handler("none", 0, 0, 0), Handler("fired", 0, 0, 1)}

NextSys == KernelNext(SysHandlers, SysSyscalls, SysDecisions)

SpecSys == Init /\ [][NextSys]_vars

(***************************************************************************)
(* Properties of the kernel loop (specification Spec).                     *)
(***************************************************************************)

\* C1: MPU enables and disables are paired: the app MPU is enabled, and the
\* enables exceed the disables (by one), exactly while the kernel is inside
\* switch_to; in every other position of the kernel loop (reason handling and
\* syscall dispatch, return of do_process, kernel work, sleep) the MPU is
\* disabled and the counts are equal.
C1_MpuEnableDisablePaired ==
    /\ cpu.mpu_enabled <=> (pc = "user")
    /\ cpu.mpu_balance = IF pc = "user" THEN 1 ELSE 0

\* A context switch has returned with a syscall and the MPU is already off.
C1_Witness ==
    /\ pc = "csr"
    /\ csr.reason = "SyscallFired"
    /\ ~cpu.mpu_enabled
    /\ cpu.mpu_balance = 0

\* C2: the chip sleeps only inside the atomic section and only with no
\* interrupt and no deferred call pending; and from a TrySleep decision with
\* work pending the iteration ends without sleeping.
C2_SleepOnlyWithNothingPending ==
    /\ [](pc = "sleep" => (atomic /\ ~pending_irq /\ ~deferred))
    /\ [][(pc = "trysleep" /\ (pending_irq \/ deferred) /\ pc' # "trysleep")
            => (pc' = "done" /\ iter'.slept = 0)]_vars

\* The chip is asleep.
C2_Witness == pc = "sleep" /\ atomic /\ iter.decision = "trysleep"

\* C3: when do_process, given timeslice Some(t), returns TimesliceExpired, the
\* execution time it returns is Some(t).
C3_ExpiredChargesWholeTimeslice ==
    (pc = "done" /\ sched.reason = "TimesliceExpired" /\ IsSome(dp.timeslice_us))
        => sched.time = dp.timeslice_us

\* Expiry found after an Interrupted context switch, and reported.
C3_Witness ==
    /\ pc = "done"
    /\ sched.reason = "TimesliceExpired"
    /\ iter.expiry = "interrupted"
    /\ sched.time = dp.timeslice_us

\* C5: in an iteration where do_kernel_work_now returned true,
\* execute_kernel_work is invoked, next is not called and no process is run; in
\* an iteration where it returned false no kernel work is executed.
C5_KernelWorkBeforeProcess ==
    /\ iter.kwork_now => (iter.kwork = 1 /\ iter.next = 0 /\ iter.ran = 0)
    /\ ~iter.kwork_now => iter.kwork = 0

\* An iteration that executed kernel work has finished.
C5_Witness == pc = "done" /\ iter.kwork_now /\ iter.kwork = 1

\* C6 as claimed: every iteration performs exactly one of: kernel work, the
\* process routine, sleep.
C6_ExactlyOneAction ==
    pc = "done" => iter.kwork + iter.ran + iter.slept = 1

\* C6 amended: every iteration performs at most one of the three, and performs
\* none only after next returned a stale process id or TrySleep.
C6_AtMostOneAction ==
    pc = "done" =>
        /\ iter.kwork + iter.ran + iter.slept <= 1
        /\ iter.kwork + iter.ran + iter.slept = 0
            => (iter.next = 1 /\ iter.decision \in {"stale", "trysleep"})

\* An iteration ended having done none of the three: the process id was stale.
C6_Witness ==
    /\ pc = "done"
    /\ iter.kwork + iter.ran + iter.slept = 0
    /\ iter.decision = "stale"

(***************************************************************************)
(* Two processes (specification SpecTwo).                                  *)
(***************************************************************************)

\* C4: at most one process executes user code at any time: an iteration runs
\* do_process at most once, the CPU is in user mode only inside switch_to and
\* then only in the process do_process was given, and it is back in the kernel
\* before any other switch.
C4_OneProcessAtATime ==
    /\ iter.ran <= 1
    /\ Cardinality(cpu.user_mode) <= 1
    /\ pc = "user" => (iter.ran = 1 /\ cpu.user_mode = {dp.proc})
    /\ pc # "user" => cpu.user_mode = {}

\* Process 2 executes user code while process 1, preempted, is still Running.
C4_Witness ==
    /\ pc = "user"
    /\ dp.proc = 2
    /\ cpu.user_mode = {2}
    /\ get_state(Cur, 1) = "Running"

(***************************************************************************)
(* The syscall dispatcher (specification SpecSys).  obs.syscall is set     *)
(* from the dispatch of a syscall until the next pass of the inner loop.   *)
(***************************************************************************)

\* C7 as claimed: after a Subscribe with a non-null pointer is dispatched, no
\* upcall of its id is left in the task queue.
C7_SubscribeDropsQueuedUpcalls ==
    IsSome(obs.syscall) =>
        LET sc == Unwrap(obs.syscall)
        IN  (sc.kind = "Subscribe" /\ sc.a0 # 0) =>
                \A j \in DOMAIN Proc(Cur, CurProc).tasks :
                    ~IsUpcallFor(Proc(Cur, CurProc).tasks[j], UpcallId(sc.n, sc.sub))

\* C7 amended: after a Subscribe with a non-null pointer that the platform
\* filter did not reject is dispatched, no upcall of its id is left in the task
\* queue; and no upcall that was queued before such a Subscribe of its id is
\* ever delivered.
C7_UnfilteredSubscribeDropsQueuedUpcalls ==
    /\ ~obs.stale_delivered
    /\ IsSome(obs.syscall) =>
        LET sc == Unwrap(obs.syscall)
        IN  (sc.kind = "Subscribe" /\ sc.a0 # 0 /\ obs.filtered = None) =>
                \A j \in DOMAIN Proc(Cur, CurProc).tasks :
                    ~IsUpcallFor(Proc(Cur, CurProc).tasks[j], UpcallId(sc.n, sc.sub))

\* A Subscribe found an upcall of its id queued, and dropped it.
C7_Witness ==
    /\ IsSome(obs.syscall)
    /\ Unwrap(obs.syscall).kind = "Subscribe"
    /\ Unwrap(obs.syscall).a0 # 0
    /\ obs.filtered = None
    /\ \E j \in DOMAIN obs.tasks_before :
            IsUpcallFor(obs.tasks_before[j],
                        UpcallId(Unwrap(obs.syscall).n, Unwrap(obs.syscall).sub))
    /\ Len(Proc(Cur, CurProc).tasks) < Len(obs.tasks_before)

\* C8 as claimed: a Subscribe of number 0 to the button or the USB driver
\* returns a subscribe-success carrying the function pointer and user data of
\* the upcall the process's previous Subscribe of that driver installed (the
\* null upcall if there was none), and leaves the upcall it passes in the
\* process's grant.
C8_SubscribeAlwaysReturnsPrevious ==
    IsSome(obs.syscall) =>
        LET sc == Unwrap(obs.syscall)
            new == IF sc.a0 = 0 THEN NullUpcall ELSE [fn |-> sc.a0, ud |-> sc.a1]
        IN  (/\ sc.kind = "Subscribe"
             /\ sc.n \in {BUTTON_DRIVER_NUM, USB_DRIVER_NUM}
             /\ sc.sub = 0) =>
                /\ Proc(Cur, CurProc).retval =
                        SubscribeSuccess(obs.prev_upcall.fn, obs.prev_upcall.ud)
                /\ sc.n = BUTTON_DRIVER_NUM => button_apps[CurProc].upcall = new
                /\ sc.n = USB_DRIVER_NUM => usb_apps[CurProc].callback = new

\* C8 amended: a Subscribe of number 0 to the button or the USB driver that
\* the platform filter does not reject returns a subscribe-success carrying
\* the function pointer and user data of the upcall the process's previous
\* such Subscribe of that driver passed (the null upcall if there was none),
\* and leaves the upcall it passes in the process's grant.
C8_SubscribeReturnsPrevious ==
    IsSome(obs.syscall) =>
        LET sc == Unwrap(obs.syscall)
            new == IF sc.a0 = 0 THEN NullUpcall ELSE [fn |-> sc.a0, ud |-> sc.a1]
        IN  (/\ sc.kind = "Subscribe"
             /\ sc.n \in {BUTTON_DRIVER_NUM, USB_DRIVER_NUM}
             /\ sc.sub = 0
             /\ obs.filtered = None) =>
                /\ Proc(Cur, CurProc).retval =
                        SubscribeSuccess(obs.prev_upcall.fn, obs.prev_upcall.ud)
                /\ sc.n = BUTTON_DRIVER_NUM => button_apps[CurProc].upcall = new
                /\ sc.n = USB_DRIVER_NUM => usb_apps[CurProc].callback = new

\* Subscribe(X) then Subscribe(Y) to the button driver: the second returns X.
C8_Witness ==
    /\ IsSome(obs.syscall)
    /\ Unwrap(obs.syscall) =
            Subscribe(BUTTON_DRIVER_NUM, 0, UpcallY.fn, UpcallY.ud)
    /\ obs.filtered = None
    /\ obs.prev_upcall = UpcallX
    /\ Proc(Cur, CurProc).retval = SubscribeSuccess(UpcallX.fn, UpcallX.ud)
    /\ button_apps[CurProc].upcall = UpcallY

\* C9 as claimed: a process that has made a syscall executes user code again
\* only with a return value set since.
C9_ReturnValueAlwaysSet ==
    pc = "user" =>
        (Proc(Cur, CurProc).retval.tag = "Unset"
            => Proc(Cur, CurProc).retval.kind = "none")

\* C9 amended: every dispatch of a syscall other than Yield and Exit sets a
\* return value, an Exit that sets none ends the process, and a process
\* executes user code without a return value set since its last syscall only
\* if that syscall was a Yield; a Yield sets none.
C9_ReturnValueSetExceptYield ==
    /\ pc = "user" =>
        (Proc(Cur, CurProc).retval.tag = "Unset"
            => Proc(Cur, CurProc).retval.kind \in {"none", "Yield"})
    /\ IsSome(obs.syscall) =>
        LET sc == Unwrap(obs.syscall)
            p == Proc(Cur, CurProc)
        IN  /\ sc.kind \notin {"Yield", "Exit"} => p.retval.tag # "Unset"
            /\ sc.kind = "Yield" => p.retval = RvUnset("Yield")
            /\ (sc.kind = "Exit" /\ p.retval.tag = "Unset")
                    => (p.state \in {"Terminated", "Unstarted"})

\* The process runs again after a Yield, with no return value set.
C9_Witness ==
    /\ pc = "user"
    /\ Proc(Cur, CurProc).retval = RvUnset("Yield")

\* C10: Yield, Exit and Memop are never passed to the platform filter; when
\* the filter rejects a syscall with code e, the return value is Failure(e),
\* no driver operation was invoked, the task queue is what it was, the process
\* is still Running and do_process goes on with its inner loop.
C10_FilterRejection ==
    /\ obs.filter_asked =>
        Unwrap(obs.syscall).kind
            \in {"Subscribe", "Command", "ReadWriteAllow", "ReadOnlyAllow"}
    /\ IsSome(obs.filtered) =>
        /\ obs.filter_asked
        /\ Proc(Cur, CurProc).retval = Failure(Unwrap(obs.filtered))
        /\ ~obs.driver
        /\ Proc(Cur, CurProc).tasks = obs.tasks_before
        /\ get_state(Cur, CurProc) = "Running"
        /\ pc = "dp_loop"
        /\ dp.return_reason = DpNone.return_reason

\* The filter rejected a Subscribe while an upcall of its id was queued.
C10_Witness ==
    /\ IsSome(obs.filtered)
    /\ Unwrap(obs.syscall).kind = "Subscribe"
    /\ \E j \in DOMAIN Proc(Cur, CurProc).tasks :
            IsUpcallFor(Proc(Cur, CurProc).tasks[j],
                        UpcallId(Unwrap(obs.syscall).n, Unwrap(obs.syscall).sub))

\* C11 as claimed: a Yield-no-wait with no task queued writes 0 to the flag
\* and leaves the process Running; a Yield-wait, or a Yield-no-wait with a task
\* queued, writes 1 and makes the process Yielded; and after a Yield-wait with
\* no task queued the next pass of the inner loop ends do_process with
\* NoWorkLeft.
C11_YieldWaitStopsWithNoWorkLeft ==
    /\ [](IsSome(obs.syscall) =>
            LET sc == Unwrap(obs.syscall)
            IN  sc.kind = "Yield" =>
                  /\ (sc.n = 0 /\ obs.tasks_before = << >>) =>
                        /\ obs.set_byte = Some(<< sc.a0, 0 >>)
                        /\ get_state(Cur, CurProc) = "Running"
                  /\ (sc.n = 1 \/ (sc.n = 0 /\ obs.tasks_before # << >>)) =>
                        /\ obs.set_byte = Some(<< sc.a0, 1 >>)
                        /\ get_state(Cur, CurProc) = "Yielded")
    /\ [][(/\ pc = "dp_loop"
           /\ IsSome(obs.syscall)
           /\ Unwrap(obs.syscall) = Yield(YieldCall_Wait, 0)
           /\ obs.tasks_before = << >>
           /\ pc' # pc)
            => (pc' = "dp_exit" /\ dp'.return_reason = "NoWorkLeft")]_vars

\* C11 amended: the flag and the state are as claimed; after a Yield-wait with
\* no task queued the next pass of the inner loop ends do_process without
\* running the process: with TimesliceExpired if the timeslice is used up,
\* else with KernelPreemption if kernel work is pending, else with NoWorkLeft.
C11_YieldFlagAndState ==
    /\ [](IsSome(obs.syscall) =>
            LET sc == Unwrap(obs.syscall)
            IN  sc.kind = "Yield" =>
                  /\ (sc.n = 0 /\ obs.tasks_before = << >>) =>
                        /\ obs.set_byte = Some(<< sc.a0, 0 >>)
                        /\ get_state(Cur, CurProc) = "Running"
                  /\ (sc.n = 1 \/ (sc.n = 0 /\ obs.tasks_before # << >>)) =>
                        /\ obs.set_byte = Some(<< sc.a0, 1 >>)
                        /\ get_state(Cur, CurProc) = "Yielded")
    /\ [][(/\ pc = "dp_loop"
           /\ IsSome(obs.syscall)
           /\ Unwrap(obs.syscall) = Yield(YieldCall_Wait, 0)
           /\ obs.tasks_before = << >>
           /\ pc' # pc)
            => /\ pc' = "dp_exit"
               /\ dp'.return_reason =
                    IF stop_running(get_remaining_us(timer, dp.timeslice_us))
                    THEN "TimesliceExpired"
                    ELSE IF ~continue_process THEN "KernelPreemption"
                    ELSE "NoWorkLeft"]_vars

\* A Yield-no-wait found a task queued, wrote 1 and made the process Yielded.
C11_Witness ==
    /\ IsSome(obs.syscall)
    /\ Unwrap(obs.syscall) = Yield(0, 0)
    /\ obs.tasks_before # << >>
    /\ obs.set_byte = Some(<< 0, 1 >>)
    /\ get_state(Cur, CurProc) = "Yielded"

(***************************************************************************)
(* Properties of the grant registry (specification SpecBoot).              *)
(***************************************************************************)
\* The two functions that finalize the grants.
FinalizeFns ==
    {"get_grant_count_and_finalize", "get_grant_count_and_finalize_external"}

\* C12: a create_grant called after get_grant_count_and_finalize (or its
\* external variant) has been called panics and leaves grant_counter
\* unchanged; a create_grant called before any finalization does not panic
\* (it returns the next grant index and counts it).
C12_CreateGrantPanicsIffFinalized ==
    /\ called.fn \in FinalizeFns => grants_finalized
    /\ called.fn = "create_grant" =>
          /\ called.panicked <=> called.finalized_before
          /\ called.panicked =>
                /\ pc = "panic"
                /\ grant_counter = called.counter_before
                /\ called.ret = None
          /\ ~called.panicked =>
                /\ called.ret = Some(called.counter_before)
                /\ grant_counter > called.counter_before

\* A create_grant that panicked after grants had been created and finalized.
C12_Witness ==
    /\ called.fn = "create_grant"
    /\ called.panicked
    /\ called.counter_before > 0
    /\ pc = "panic"

\* C13: grants_finalized only ever changes from false to true: it starts
\* false, it is set by a get_grant_count_and_finalize (internal or external),
\* and no step, a panicking create_grant and a repeated finalization included,
\* resets it.
C13_FinalizedOnlyFalseToTrue ==
    /\ ~grants_finalized
    /\ [][/\ grants_finalized => grants_finalized'
          /\ (~grants_finalized /\ grants_finalized') =>
                (called'.fn \in FinalizeFns /\ ~called'.finalized_before)
          /\ (called' # called /\ called'.fn \in FinalizeFns) =>
                grants_finalized']_vars

\* The grants finalized a second time, by the external variant.
C13_Witness ==
    /\ grants_finalized
    /\ called.fn = "get_grant_count_and_finalize_external"
    /\ called.finalized_before

(***************************************************************************)
(* Properties of the work counter (specification Spec).                    *)
(***************************************************************************)
\* The processes in Running state.
RunningProcesses ==
    {i \in ProcIdx : IsSome(processes[i]) /\ get_state(Cur, i) = "Running"}

\* The number of tasks (function calls and IPC notifications) queued on the
\* processes of slots I.
RECURSIVE QueuedTasks(_)
QueuedTasks(I) ==
    IF I = {} THEN 0
    ELSE LET i == CHOOSE x \in I : TRUE
         IN  (IF IsSome(processes[i]) THEN Len(Proc(Cur, i).tasks) ELSE 0)
             + QueuedTasks(I \ {i})

CurProcDead ==
    /\ pc \in {"dp_loop", "dp_exit"}
    /\ ~is_active(Cur, CurProc)

\* The reason the inner loop stops with when the process is not ready: the
\* checks of the timer and of continue_process come first.
NotReadyStopReason ==
    IF stop_running(get_remaining_us(timer, dp.timeslice_us))
    THEN "TimesliceExpired"
    ELSE IF ~continue_process THEN "KernelPreemption"
    ELSE "NoWorkLeft"

FaultedPass ==
    /\ pc = "dp_loop"
    /\ iter.switched
    /\ get_state(Cur, CurProc) = "Faulted"
    /\ pc' # pc

\* The fault hook fails for the context switch reason Fault.
FaultHookFails(env) ==
    /\ pc = "csr"
    /\ csr.reason = "Fault"
    /\ env.hook_err
    /\ HandleSwitchReason(env)

Returned == pc = "done" /\ iter.ran = 1

\* do_process is running or has just returned.
InDoProcess == pc \in {"dp_loop", "user", "csr", "dp_exit"} \/ Returned

\* do_process is running, or has just returned, with a timeslice of at most
\* MIN_QUANTA_THRESHOLD_US.
ShortTimeslice ==
    /\ InDoProcess
    /\ IsSome(dp.timeslice_us)
    /\ Unwrap(dp.timeslice_us) <= MIN_QUANTA_THRESHOLD_US

MinimalTimeslice == dp.timeslice_us = Some(MIN_QUANTA_THRESHOLD_US + 1)

\* C18 as stated: do_process invoked with MIN_QUANTA_THRESHOLD_US + 1 has
\* switched to the process at least once when it returns.
C18_MinimalTimesliceSwitchesOnce ==
    (Returned /\ MinimalTimeslice) => iter.switched

\* C18: with a timeslice of MIN_QUANTA_THRESHOLD_US + 1 the timeslice check
\* lets a pass of the inner loop through as long as the timer still reports the
\* whole timeslice: the pass then switches to the process if it is Running and
\* continue_process returns true, and never stops with TimesliceExpired; when
\* do_process returns without a context switch, it is because time had passed
\* before a check (TimesliceExpired), kernel work was pending
\* (KernelPreemption), or the process was not ready or stopped (NoWorkLeft,
\* Stopped).
C18_MinimalTimeslicePassesCheck ==
    /\ [][(/\ pc = "dp_loop" /\ MinimalTimeslice /\ pc' # pc
           /\ get_remaining_us(timer, dp.timeslice_us) = dp.timeslice_us) =>
            /\ (continue_process /\ get_state(Cur, CurProc) = "Running") =>
                  (pc' = "user" /\ iter'.switched /\ CurProc \in cpu'.user_mode)
            /\ pc' = "dp_exit" => dp'.return_reason # "TimesliceExpired"]_vars
    /\ []((Returned /\ MinimalTimeslice /\ ~iter.switched) =>
            sched.reason \in
                {"TimesliceExpired", "KernelPreemption", "NoWorkLeft", "Stopped"})

\* do_process switched to the process within a timeslice of
\* MIN_QUANTA_THRESHOLD_US + 1.
C18_Witness ==
    /\ Returned
    /\ MinimalTimeslice
    /\ iter.switched

\* do_process is running, or has just returned, without a timeslice.
Cooperative ==
    /\ InDoProcess
    /\ dp.timeslice_us = None

\* C19: do_process invoked with timeslice None uses the null timer: the chip's
\* scheduler timer is not started, armed or reset (it stays as it was, from
\* the invocation to the return), do_process never stops with
\* TimesliceExpired, at the top of the loop or after an Interrupted context
\* switch, and it returns None as the execution time; with timeslice Some(t)
\* the execution time is always Some.
C19_CooperativeUsesNullTimer ==
    /\ [](Cooperative =>
            /\ dp.return_reason # "TimesliceExpired"
            /\ iter.expiry = "none"
            /\ timer = TimerReset
            /\ pc = "done" => (sched.time = None /\ sched.reason = dp.return_reason))
    /\ []((Returned /\ IsSome(dp.timeslice_us)) => IsSome(sched.time))
    /\ [][(pc = "next" /\ pc' = "dp_loop" /\ dp'.timeslice_us = None) =>
            timer' = timer]_vars
    /\ [][(Cooperative /\ pc # "done") => timer' = timer]_vars

\* A cooperative run that was interrupted in user mode and returned.
C19_Witness ==
    /\ Returned
    /\ dp.timeslice_us = None
    /\ iter.switched
    /\ sched = [reason |-> "KernelPreemption", time |-> None]

(***************************************************************************)
(* Properties of the RunProcess decision (specification Spec).             *)
(***************************************************************************)
\* appid names no process: its index is out of range, its slot is empty, or
\* the process in the slot has another identifier.
StaleId(appid) ==
    \/ appid.index \notin ProcIdx
    \/ processes[appid.index] = None
    \/ Unwrap(processes[appid.index]).id # appid.id

\* The kernel loop acts on the decision d that scheduler.next returned.
Decided(d) ==
    /\ pc = "next"
    /\ d.kind = "RunProcess"
    /\ NextRunProcess(d) \/ NextStaleProcess(d)

\* C20: for a RunProcess(id, ts) decision with a valid id, do_process is
\* invoked once, on that process and with ts, and scheduler.result is then
\* called once, with the stop reason and the execution time do_process
\* returned; with a stale id (index out of range, empty slot or mismatching
\* identifier) neither is called and no process or kernel state changes.
C20_RunProcessRunsOnceOrNotAtAll ==
    /\ [][\A d \in Decisions : Decided(d) =>
            IF StaleId(d.appid)
            THEN /\ pc' = "done"
                 /\ iter'.decision = "stale"
                 /\ iter'.ran = 0 /\ iter'.result = 0
                 /\ UNCHANGED << processes, work, identifier_max, pending_irq,
                                 deferred, atomic, cpu, timer, dp, csr, sched,
                                 button_apps, pin_enabled, usb_apps, usbc,
                                 serving_app, grants >>
            ELSE /\ pc' = "dp_loop"
                 /\ iter'.decision = "run"
                 /\ iter'.ran = 1 /\ iter'.result = 0
                 /\ dp'.proc = d.appid.index
                 /\ dp'.timeslice_us = d.timeslice_us]_vars
    /\ [](iter.decision = "stale" =>
            (pc = "done" /\ iter.ran = 0 /\ iter.result = 0 /\ sched = SchedNone))
    /\ [](iter.decision = "run" =>
            /\ iter.ran = 1
            /\ iter.result = (IF pc = "done" THEN 1 ELSE 0)
            /\ pc = "done" =>
                  /\ sched.reason = dp.return_reason
                  /\ IsSome(sched.time) <=> IsSome(dp.timeslice_us))
    /\ [][(pc = "dp_exit" /\ pc' # pc) =>
            /\ pc' = "done"
            /\ sched'.reason = dp.return_reason
            /\ sched'.time =
                 time_executed_us(dp.timeslice_us, dp.return_reason,
                                  get_remaining_us(timer, dp.timeslice_us))]_vars

\* The result of a run of a restarted process, named by its new identifier,
\* has been handed to the scheduler.
C20_Witness ==
    /\ pc = "done"
    /\ iter.decision = "run"
    /\ iter.ran = 1
    /\ iter.result = 1
    /\ Proc(Cur, CurProc).id > 0
    /\ sched.reason = "KernelPreemption"

(***************************************************************************)
(* Delivery of upcalls (specification SpecFifo): one process that          *)
(* subscribes to the button driver, enables a pin and waits, while the pin *)
(* is pressed and released.                                                *)
(***************************************************************************)
FifoSyscalls ==
    {Subscribe(BUTTON_DRIVER_NUM, 0, UpcallX.fn, UpcallX.ud),
     Command(BUTTON_DRIVER_NUM, 1, 0, 0), Yield(YieldCall_Wait, 0), Exit(0, 0)}

FifoHandlers ==
    {Handler("none", 0, 0, 0)} \cup {Handler("fired", 0, 0, l) : l \in Levels}

FifoDecisions ==
    {TrySleep, RunProcess(ProcessId(0, 0), None)} \cup
    {RunProcess(ProcessId(1, 0), ts) : ts \in {None, Some(MaxTimeslice)}}

NextFifo == KernelNext(FifoHandlers, FifoSyscalls, FifoDecisions)

SpecFifo == Init /\ [][NextFifo]_vars

\* The task queue of the process in slot i.
Queue(i) == Proc(Cur, i).tasks

\* do_process takes a task from the queue of the process it runs.
Delivery(i) ==
    /\ pc = "dp_loop"
    /\ i = CurProc
    /\ Len(Queue(i)') < Len(Queue(i))
    /\ is_active(Cur, i)'
    /\ obs'.syscall = None

\* C21: upcalls are delivered in the order they were scheduled. The queue of a
\* live process changes only by a task appended at its back (an upcall
\* scheduled), by the removal of its first task (do_process, one per pass of
\* the inner loop and only while the process is Yielded or Unstarted, which
\* then is set Running), or by a Subscribe dropping the upcalls of its id or
\* the death of the process emptying it; so a task is never taken before one
\* scheduled earlier.
C21_UpcallsDeliveredInOrder ==
    [][\A i \in ProcIdx :
        (IsSome(processes[i]) /\ IsSome(processes'[i])
         /\ Proc(Cur, i).id = (Proc(Cur, i).id)') =>
            LET q == Queue(i)
                r == Queue(i)'
            IN  /\ \/ r = q
                   \/ Len(r) = Len(q) + 1 /\ SubSeq(r, 1, Len(q)) = q
                   \/ Delivery(i) /\ r = Tail(q)
                   \/ /\ pc = "csr"
                      /\ IsSome(obs'.syscall)
                      /\ Unwrap(obs'.syscall).kind = "Subscribe"
                      /\ r = SelectSeq(q, LAMBDA t :
                                ~IsUpcallFor(t, UpcallId(Unwrap(obs'.syscall).n,
                                                         Unwrap(obs'.syscall).sub)))
                   \/ ~(is_active(Cur, i)') /\ r = << >>
                /\ Delivery(i) =>
                      /\ get_state(Cur, i) \in {"Yielded", "Unstarted"}
                      /\ Head(q).kind = "FunctionCall" =>
                            (get_state(Cur, i))' = "Running"
                      /\ pc' = "dp_loop"]_vars

\* A press and a release of the pin are queued, in this order, and do_process
\* has just taken the task before them.
C21_Witness ==
    /\ pc = "dp_loop"
    /\ get_state(Cur, CurProc) = "Running"
    /\ Len(Queue(CurProc)) = 2
    /\ Queue(CurProc)[1].a1 = 1
    /\ Queue(CurProc)[2].a1 = 0
    /\ \A n \in 1 .. 2 : IsUpcallFor(Queue(CurProc)[n], UpcallId(BUTTON_DRIVER_NUM, 0))

(***************************************************************************)
(* The button driver under its calls for two processes. The kernel loop is *)
(* reduced to the calls: a subscribe or a command for a process (live, or  *)
(* terminated with its slot still holding it), the bottom half of an       *)
(* enabled pin, and what changes the processes the driver sees: a task     *)
(* taken by a waiting process, a yield, an exit. SpecBtn has the commands, *)
(* SpecFired the pins that fire and the upcalls they queue.                *)
(***************************************************************************)
\* The observation of a call of a driver: fn is "subscribe", "command" or
\* "fired"; before tells whether the caller's mask had the bit of pin data
\* when the call was made, ret is what the call returned, and tick alternates
\* from one call to the next.
DriverTick == IF "tick" \in DOMAIN called THEN called.tick ELSE 0

DriverCall(fn, num, data, state, appid, before, ret) ==
    [fn |-> fn, num |-> num, data |-> data, state |-> state, appid |-> appid,
     before |-> before, ret |-> ret, tick |-> 1 - DriverTick]

\* Bit data of the mask in the grant of process i.
MaskBit(i, data) == data \in Pins /\ HasBit(button_apps[i].mask, data)

\* The activation state the pins are read in.
DrvLevel == Cardinality({"pressed"})

\* What a call on a driver leaves alone.
drv_rest ==
    << pc, pending_irq, deferred, atomic, cpu, timer, dp, csr, sched, iter,
       serving_app, grant_counter, grants_finalized >>

BtnSubscribe(i, callback) ==
    /\ pc = "drv"
    /\ LET r == Button_subscribe(Cur, 0, callback, processid(Cur, i))
       IN  /\ Commit(r.k)
           /\ called' = DriverCall("subscribe", 0, 0, 0, processid(Cur, i),
                                   FALSE, [ok |-> r.ok, upcall |-> r.upcall])
    /\ UNCHANGED drv_rest

BtnCommand(i, command_num, data, level) ==
    /\ pc = "drv"
    /\ LET r == Button_command(Cur, command_num, data, processid(Cur, i), level)
       IN  /\ Commit(r.k)
           /\ called' = DriverCall("command", command_num, data, level,
                                   processid(Cur, i), MaskBit(i, data), r.res)
    /\ UNCHANGED drv_rest

\* Pin pin_num, its interrupt enabled, fires while its button is in
\* button_state.
BtnFired(pin_num, button_state) ==
    /\ pc = "drv"
    /\ pin_enabled[pin_num]
    /\ Commit(Button_fired(Cur, pin_num, button_state))
    /\ called' = DriverCall("fired", 0, pin_num, button_state, ProcessId(0, 0),
                            FALSE, None)
    /\ UNCHANGED drv_rest

\* do_process gives the waiting process i the first task of its queue.
DrvTask(i) ==
    /\ pc = "drv"
    /\ get_state(Cur, i) = "Yielded"
    /\ has_tasks(Cur, i)
    /\ LET t == Unwrap(peek_task(Cur, i))
           k1 == dequeue_task(Cur, i)
       IN  Commit(IF t.kind = "FunctionCall" THEN set_process_function(k1, i, t)
                  ELSE k1)
    /\ UNCHANGED called
    /\ UNCHANGED drv_rest

\* The Running process i yields, or exits.
DrvYield(i) ==
    /\ pc = "drv"
    /\ get_state(Cur, i) = "Running"
    /\ Commit([handle_yield(Cur, i, YieldCall_Wait, 0) EXCEPT !.obs = obs])
    /\ UNCHANGED called
    /\ UNCHANGED drv_rest

DrvExit(i) ==
    /\ pc = "drv"
    /\ get_state(Cur, i) = "Running"
    /\ Commit([handle_exit(Cur, i, 0, 0, FALSE) EXCEPT !.obs = obs])
    /\ UNCHANGED called
    /\ UNCHANGED drv_rest

\* Both slots hold a process that has taken its first task and runs; the
\* kernel loop is not followed.
InitDrv ==
    /\ pc = "drv"
    /\ processes = [i \in ProcIdx |->
                        Some([NewProcess(i - 1) EXCEPT !.state = "Running",
                                                       !.tasks = << >>])]
    /\ work = Cardinality(ProcIdx)
    /\ identifier_max = Cardinality(ProcIdx)
    /\ pending_irq = FALSE
    /\ deferred = FALSE
    /\ atomic = FALSE
    /\ cpu = CpuInit
    /\ timer = TimerReset
    /\ dp = DpNone
    /\ csr = CsrNone
    /\ sched = SchedNone
    /\ iter = IterNone
    /\ button_apps = [i \in ProcIdx |-> ButtonDefault]
    /\ pin_enabled = [p \in Pins |-> FALSE]
    /\ usb_apps = [i \in ProcIdx |-> UsbDefault]
    /\ usbc = [enabled |-> FALSE, attached |-> FALSE]
    /\ serving_app = None
    /\ obs = ObsInit
    /\ grant_counter = NumGrants
    /\ grants_finalized = TRUE
    /\ called = CallNone

NextBtn ==
    \/ \E i \in ProcIdx, callback \in {UpcallX, UpcallY} : BtnSubscribe(i, callback)
    \/ \E i \in ProcIdx, c \in 0 .. 4, data \in 0 .. (NumPins + 1) :
            BtnCommand(i, c, data, DrvLevel)
    \/ \E i \in ProcIdx : DrvExit(i)

SpecBtn == InitDrv /\ [][NextBtn]_vars

\* The processes enable the first pin and the last.
NextFired ==
    \/ \E i \in ProcIdx : BtnSubscribe(i, UpcallX)
    \/ \E i \in ProcIdx, data \in {0, NumPins - 1} : BtnCommand(i, 1, data, DrvLevel)
    \/ \E pin_num \in Pins : BtnFired(pin_num, DrvLevel)
    \/ \E i \in ProcIdx : DrvTask(i)
    \/ \E i \in ProcIdx : DrvYield(i)
    \/ \E i \in ProcIdx : DrvExit(i)

SpecFired == InitDrv /\ [][NextFired]_vars

(***************************************************************************)
(* The USB driver under its calls for two processes (specification         *)
(* SpecUsb). Nothing in usb_user.rs writes serving_app: it stays empty.    *)
(***************************************************************************)
\* Process i has a request pending.
Awaiting(i) == IsSome(usb_apps[i].awaiting)

UsbSubscribe(i, callback) ==
    /\ pc = "drv"
    /\ LET r == Usb_subscribe(Cur, 0, callback, processid(Cur, i))
       IN  /\ Commit(r.k)
           /\ called' = DriverCall("usb_subscribe", 0, 0, 0, processid(Cur, i),
                                   FALSE, [ok |-> r.ok, upcall |-> r.upcall])
    /\ UNCHANGED drv_rest

UsbCommand(i, command_num) ==
    /\ pc = "drv"
    /\ LET r == Usb_command(Cur, command_num, processid(Cur, i), serving_app)
       IN  /\ Commit(r.k)
           /\ called' = DriverCall("usb_command", command_num, 0, 0,
                                   processid(Cur, i), Awaiting(i), r.res)
    /\ UNCHANGED drv_rest

NextUsb ==
    \/ \E i \in ProcIdx, callback \in {UpcallX, UpcallY} : UsbSubscribe(i, callback)
    \/ \E i \in ProcIdx, c \in 0 .. 2 : UsbCommand(i, c)
    \/ \E i \in ProcIdx : DrvTask(i)
    \/ \E i \in ProcIdx : DrvYield(i)
    \/ \E i \in ProcIdx : DrvExit(i)

SpecUsb == InitDrv /\ [][NextUsb]_vars

\* The step is the command command_num of a process, on a valid pin.
BtnCommandStep(command_num) ==
    /\ DriverTick' # DriverTick
    /\ called'.fn = "command"
    /\ called'.num = command_num
    /\ called'.data \in Pins

\* The step is command(2, i), accepted, of the process whose command(1, i)
\* was the call before it, accepted too.
EnableThenDisable ==
    /\ called.fn = "command"
    /\ called.num = 1
    /\ called.ret = Success
    /\ BtnCommandStep(2)
    /\ called'.data = called.data
    /\ called'.appid = called.appid
    /\ called'.ret = Success

\* C22 as stated: command(1, i) followed by command(2, i) leaves bit i of the
\* process's mask equal to its value before the two commands, set or clear.
C22_EnableDisableRestoresBit ==
    [][EnableThenDisable =>
          MaskBit(called.appid.index, called.data)' = called.before]_vars

\* C22, amended: command(1, i) followed by command(2, i) leaves bit i of the
\* process's mask clear, which is its value before the two commands only if it
\* was clear.
C22_EnableDisableClearsBit ==
    [][EnableThenDisable =>
          /\ ~MaskBit(called.appid.index, called.data)'
          /\ called'.before
          /\ (MaskBit(called.appid.index, called.data)' = called.before)
                = ~called.before]_vars

\* Process 1 disabled pin 0 right after enabling it.
C22_Witness ==
    /\ called.fn = "command"
    /\ called.num = 2
    /\ called.data = 0
    /\ called.appid.index = 1
    /\ called.before
    /\ called.ret = Success
    /\ ~MaskBit(1, 0)
    /\ is_active(Cur, 1)

\* The step is the command command_num of a process on an index that names
\* no pin.
BtnInvalidIndexStep ==
    /\ DriverTick' # DriverTick
    /\ called'.fn = "command"
    /\ called'.num \in 1 .. 3
    /\ called'.data >= NumPins

\* C23: commands 1, 2 and 3 with data >= n return Failure(INVAL) and change no
\* process's mask and no pin's interrupt-enable state.
C23_InvalidIndexRejected ==
    [][BtnInvalidIndexStep =>
          /\ called'.ret = Failure("INVAL")
          /\ button_apps' = button_apps
          /\ pin_enabled' = pin_enabled]_vars

\* Process 1, holding the bit of pin 0 with the pin enabled, had command 2
\* rejected for data = n.
C23_Witness ==
    /\ called.fn = "command"
    /\ called.num = 2
    /\ called.data = NumPins
    /\ called.appid.index = 1
    /\ called.ret = Failure("INVAL")
    /\ MaskBit(1, 0)
    /\ pin_enabled[0]

\* Process j is alive.
Live(j) == is_active(Cur, j)

\* Some live process has the bit of pin data in its mask.
LiveWithBit(data) == \E j \in ProcIdx : Live(j) /\ MaskBit(j, data)

BtnUntouchedBy(i, data) ==
    /\ \A j \in ProcIdx \ {i} : button_apps'[j] = button_apps[j]
    /\ button_apps'[i].upcall = button_apps[i].upcall
    /\ \A b \in Pins \ {data} :
            /\ MaskBit(i, b)' = MaskBit(i, b)
            /\ pin_enabled'[b] = pin_enabled[b]
    /\ processes' = processes

\* C24: command(2, i) with valid i clears bit i of the caller's mask, then
\* disables pin i iff no live process has bit i set after the clear; a caller
\* that has terminated gets a failure, and the pin stays enabled as long as
\* another process has the bit.
C24_DisableSweepsLiveProcesses ==
    [][\A i \in ProcIdx, data \in Pins :
          BtnCommandStep(2) /\ called'.appid.index = i /\ called'.data = data =>
              /\ ~MaskBit(i, data)'
              /\ pin_enabled'[data] = (pin_enabled[data] /\ LiveWithBit(data)')
              /\ called'.ret = IF Live(i) THEN Success
                                ELSE Failure(GrantEnterErrorCode)
              /\ BtnUntouchedBy(i, data)]_vars

\* Process 2, terminated, had command(2, 0) fail, and pin 0 is still enabled
\* for process 1, which holds its bit.
C24_Witness ==
    /\ called.fn = "command"
    /\ called.num = 2
    /\ called.data = 0
    /\ called.appid.index = 2
    /\ called.ret.tag = "Failure"
    /\ ~Live(2)
    /\ Live(1)
    /\ MaskBit(1, 0)
    /\ pin_enabled[0]

\* The tasks queued on process j.
Tasks(j) == Proc(Cur, j).tasks

\* The upcall the button driver schedules for process j when pin pin_num
\* fires in state button_state.
ButtonUpcall(j, pin_num, button_state) ==
    [kind |-> "FunctionCall", id |-> UpcallId(BUTTON_DRIVER_NUM, 0),
     fn |-> button_apps[j].upcall.fn, a0 |-> pin_num, a1 |-> button_state,
     ud |-> button_apps[j].upcall.ud, stale |-> FALSE]

\* Process j has a callback installed and room in its queue.
Schedulable(j) == button_apps[j].upcall # NullUpcall /\ Len(Tasks(j)) < MaxTasks

\* The step is the bottom half of pin pin_num.
FiredStep(pin_num) ==
    /\ DriverTick' # DriverTick
    /\ called'.fn = "fired"
    /\ called'.data = pin_num

\* C25: when pin i fires, exactly the live processes whose mask has bit i have
\* one upcall (i, activation state) scheduled on their callback, which queues
\* it behind the tasks they have; the others, terminated ones included, get
\* none; and pin i is disabled iff no live process has bit i.
C25_FiredSchedulesInterested ==
    [][\A pin_num \in Pins :
          FiredStep(pin_num) =>
              /\ \A j \in ProcIdx :
                    Tasks(j)' =
                        IF Live(j) /\ MaskBit(j, pin_num) /\ Schedulable(j)
                        THEN Append(Tasks(j), ButtonUpcall(j, pin_num, called'.state))
                        ELSE Tasks(j)
              /\ pin_enabled'[pin_num] = LiveWithBit(pin_num)
              /\ \A b \in Pins \ {pin_num} : pin_enabled'[b] = pin_enabled[b]
              /\ button_apps' = button_apps]_vars

\* Pin 1 fired after process 2 terminated: process 1, which has the bit and a
\* callback, has the upcall (1, state) at the back of its queue, process 2 has
\* nothing, and the pin is still enabled.
C25_Witness ==
    /\ called.fn = "fired"
    /\ called.data = 1
    /\ ~Live(2)
    /\ Tasks(2) = << >>
    /\ Live(1)
    /\ MaskBit(1, 1)
    /\ Tasks(1) # << >>
    /\ Tasks(1)[Len(Tasks(1))] = ButtonUpcall(1, 1, called.state)
    /\ pin_enabled[1]

\* Between two calls of the USB driver no process has a request pending:
\* serving_app is never set, so the command that records a request serves one
\* before it returns.
NoRequestPending == \A i \in ProcIdx : ~Awaiting(i)

\* The upcall of the USB driver is in the queue of process i.
UsbTaskQueued(i) ==
    \E n \in 1 .. Len(Tasks(i)) : IsUpcallFor(Tasks(i)[n], UpcallId(USB_DRIVER_NUM, 0))

\* Process a had USB command 1 accepted in the call before this one and its
\* callback, scheduled, has not run; the step is USB command 1 of process b.
SecondRequest(a, b) ==
    /\ a # b
    /\ called.fn = "usb_command"
    /\ called.num = 1
    /\ called.appid.index = a
    /\ called.ret = Success
    /\ UsbTaskQueued(a)
    /\ ~UsbTaskQueued(b)
    /\ DriverTick' # DriverTick
    /\ called'.fn = "usb_command"
    /\ called'.num = 1
    /\ called'.appid.index = b

\* C27 as stated: when B issues USB command 1 after A did and before A's
\* callback has run, both commands return Success, A's callback is scheduled,
\* and B's request is recorded but stays unserved, serving_app being set.
C27_SecondRequestWaits ==
    [][\A a \in ProcIdx, b \in ProcIdx :
          SecondRequest(a, b) =>
              /\ called'.ret = Success
              /\ UsbTaskQueued(a)'
              /\ Awaiting(b)'
              /\ ~UsbTaskQueued(b)'
              /\ IsSome(serving_app')]_vars

\* What the code does: process 2 issued USB command 1 while the callback of
\* process 1 was still queued, and was served in that same command.
C27_Witness ==
    /\ called.fn = "usb_command"
    /\ called.num = 1
    /\ called.appid.index = 2
    /\ called.ret = Success
    /\ ~called.before
    /\ UsbTaskQueued(1)
    /\ UsbTaskQueued(2)
    /\ ~Awaiting(2)
    /\ serving_app = None

\* The step dispatches the Exit syscall the running process made.
ExitDispatch ==
    /\ pc = "csr"
    /\ csr.reason = "SyscallFired"
    /\ csr.syscall.kind = "Exit"
    /\ pc' # pc

\* C28: Exit with selector 0 terminates the process with the given completion
\* code, with selector 1 requests its restart, with any other selector only
\* sets the return value Failure(NOSUPPORT) and leaves the process Running; the
\* platform filter is never asked about an Exit.
C28_ExitSelectors ==
    [][ExitDispatch =>
          LET sc == csr.syscall
              p == Unwrap(processes[dp.proc])
              q == Unwrap(processes'[dp.proc])
              terminated == q = [p EXCEPT !.state = "Terminated", !.tasks = << >>]
          IN  /\ obs'.syscall = Some(sc)
              /\ ~obs'.filter_asked
              /\ obs'.filtered = None
              /\ sc.n = 0 =>
                    /\ obs'.exit = ExitCall("terminate", sc.a0)
                    /\ terminated
                    /\ identifier_max' = identifier_max
              /\ sc.n = 1 =>
                    /\ obs'.exit = ExitCall("try_restart", sc.a0)
                    /\ \/ terminated /\ identifier_max' = identifier_max
                       \/ /\ q = NewProcess(identifier_max)
                          /\ identifier_max' = identifier_max + 1
              /\ sc.n \notin {0, 1} =>
                    /\ obs'.exit = None
                    /\ q = [p EXCEPT !.retval = Failure("NOSUPPORT")]
                    /\ q.state = "Running"
                    /\ identifier_max' = identifier_max]_vars

\* An Exit with selector 1 and completion code 1 was dispatched, and the slot
\* holds the restarted process.
C28_Witness ==
    /\ IsSome(obs.syscall)
    /\ Unwrap(obs.syscall) = Exit(1, 1)
    /\ obs.exit = ExitCall("try_restart", 1)
    /\ ~obs.filter_asked
    /\ get_state(Cur, CurProc) = "Unstarted"
    /\ Proc(Cur, CurProc).id = identifier_max - 1

\* An interrupt or a deferred call is pending.
KernelWorkPending == pending_irq \/ deferred

\* C29: once an interrupt or a deferred call is pending while a process is
\* being run, do_process does not switch into the process again: its next pass
\* of the inner loop stops with TimesliceExpired if the remaining time is at or
\* below the threshold and with KernelPreemption otherwise, the work stays
\* pending until the kernel loop begins again, and that iteration executes
\* kernel work, running no process.
C29_PendingWorkPreempts ==
    [][KernelWorkPending =>
          /\ pc \in {"dp_loop", "user", "csr", "dp_exit", "done"} => KernelWorkPending'
          /\ pc # "user" => pc' # "user"
          /\ (pc = "dp_loop" /\ pc' # pc) =>
                /\ pc' = "dp_exit"
                /\ dp'.return_reason =
                        IF stop_running(get_remaining_us(timer, dp.timeslice_us))
                        THEN "TimesliceExpired"
                        ELSE "KernelPreemption"
          /\ (pc = "idle" /\ pc' # pc) =>
                /\ pc' = "kwork"
                /\ iter'.kwork = 1
                /\ iter'.next = 0
                /\ iter'.ran = 0]_vars

\* do_process switched into the process, an interrupt became pending, and it
\* returned KernelPreemption with the interrupt still pending.
C29_Witness ==
    /\ Returned
    /\ iter.switched
    /\ sched.reason = "KernelPreemption"
    /\ pending_irq

\* The step handles the return of a context switch with Interrupted.
InterruptedReturn ==
    /\ pc = "csr"
    /\ csr.reason = "Interrupted"
    /\ pc' # pc

\* C30: when a context switch returns Interrupted, do_process stops with
\* TimesliceExpired if the scheduler timer reports expired; otherwise it goes
\* back to the top of its inner loop; either way no syscall is handled and the
\* process is left as it was. The process is switched into only from the top
\* of the loop, with time remaining above the threshold and nothing pending.
C30_InterruptedRechecks ==
    [][/\ InterruptedReturn =>
            /\ IF get_remaining_us(timer, dp.timeslice_us) = None
               THEN pc' = "dp_exit" /\ dp'.return_reason = "TimesliceExpired"
               ELSE pc' = "dp_loop" /\ dp' = dp
            /\ obs'.syscall = None
            /\ processes' = processes
            /\ << work, button_apps, pin_enabled, usb_apps, usbc >>
                    = << work', button_apps', pin_enabled', usb_apps', usbc' >>
       /\ (pc # "user" /\ pc' = "user") =>
            /\ pc = "dp_loop"
            /\ ~stop_running(get_remaining_us(timer, dp.timeslice_us))
            /\ ~KernelWorkPending]_vars

\* The process was interrupted by the expiry of its timeslice, and do_process
\* has left its loop with TimesliceExpired from the Interrupted arm.
C30_Witness ==
    /\ pc = "dp_exit"
    /\ iter.expiry = "interrupted"
    /\ dp.return_reason = "TimesliceExpired"
    /\ iter.switched
    /\ get_state(Cur, CurProc) = "Running"

(***************************************************************************)
(* The scheduler timer over a run of do_process (specification Spec).      *)
(***************************************************************************)
\* The kernel is inside do_process, before the final reset.
DoProcessRuns == pc \in {"dp_loop", "user", "csr", "dp_exit"}

\* C31: do_process resets the scheduler timer at entry and starts it only when
\* a timeslice was given; the timer is armed exactly while the process is
\* switched to; it is reset before do_process returns, whatever the stop
\* reason, so that outside do_process (kernel work, scheduling, sleep) it is
\* disarmed and reset.
C31_TimerArmedOnlyInProcess ==
    /\ [](~DoProcessRuns => timer = TimerReset)
    /\ [](timer.armed <=> (pc = "user" /\ IsSome(dp.timeslice_us)))
    /\ [](timer.mode # "reset" => IsSome(dp.timeslice_us))
    /\ [][(pc = "next" /\ pc' = "dp_loop") =>
            timer' = IF IsSome(dp'.timeslice_us)
                     THEN [mode |-> "running", rem |-> Unwrap(dp'.timeslice_us),
                           armed |-> FALSE]
                     ELSE TimerReset]_vars
    /\ [][(pc = "dp_exit" /\ pc' # pc) => (pc' = "done" /\ timer' = TimerReset)]_vars

\* do_process has returned KernelPreemption from a run with a timeslice in
\* which the process was switched to, and the timer is disarmed and reset.
C31_Witness ==
    /\ Returned
    /\ IsSome(dp.timeslice_us)
    /\ iter.switched
    /\ sched.reason = "KernelPreemption"
    /\ timer = TimerReset

\* The pass of the inner loop, or the Interrupted arm, asks the timer for the
\* remaining time and the timer answers None.
LoopQueryNone ==
    /\ \/ pc = "dp_loop" /\ pc' # "dp_loop"
       \/ pc = "dp_loop" /\ processes' # processes
       \/ pc = "csr" /\ csr.reason = "Interrupted" /\ pc' # "csr"
    /\ get_remaining_us(timer, dp.timeslice_us) = None

\* The computation of the time asks the timer (the stop reason is not
\* TimesliceExpired) and the timer answers None.
FinalQueryNone ==
    /\ pc = "dp_exit" /\ pc' = "done"
    /\ IsSome(dp.timeslice_us)
    /\ dp.return_reason # "TimesliceExpired"
    /\ get_remaining_us(timer, dp.timeslice_us) = None

\* The answers the timer can give.
Remainings == {None} \cup {Some(r) : r \in 0 .. MaxTimeslice}

\* C32 as stated: whenever get_remaining_us returned None within do_process,
\* the stop reason of that execution is TimesliceExpired.
C32_NoneOnlyWithTimesliceExpired ==
    [][/\ LoopQueryNone => (pc' = "dp_exit" /\ dp'.return_reason = "TimesliceExpired")
       /\ FinalQueryNone => sched'.reason = "TimesliceExpired"]_vars

\* C32 (amended): once get_remaining_us returned None inside the loop, the loop
\* is left with TimesliceExpired, nothing but the return follows, and the time
\* is the whole timeslice whatever the timer would answer; when the query of
\* the time computation is the one that returns None, under another stop
\* reason, the whole timeslice is charged and the reset follows at once.
C32_NoQueryAfterNone ==
    /\ [][LoopQueryNone => (pc' = "dp_exit" /\ dp'.return_reason = "TimesliceExpired")]_vars
    /\ [][pc = "dp_exit" => (pc' \in {"dp_exit", "done"} /\ dp' = dp)]_vars
    /\ [][(pc = "dp_exit" /\ pc' = "done" /\ dp.return_reason = "TimesliceExpired"
            /\ IsSome(dp.timeslice_us)) =>
              /\ sched'.reason = "TimesliceExpired"
              /\ \A r \in Remainings :
                    time_executed_us(dp.timeslice_us, dp.return_reason, r) = sched'.time
              /\ sched'.time = dp.timeslice_us
              /\ timer' = TimerReset]_vars
    /\ [][FinalQueryNone => (sched'.time = dp.timeslice_us /\ timer' = TimerReset)]_vars

\* The Interrupted arm got None from the timer and left the loop with
\* TimesliceExpired; the time is about to be computed.
C32_Witness ==
    /\ pc = "dp_exit"
    /\ iter.expiry = "interrupted"
    /\ timer.mode = "expired"
    /\ dp.return_reason = "TimesliceExpired"

(***************************************************************************)
(* More properties of the syscall arms (specification SpecSys).            *)
(***************************************************************************)
\* The syscall just dispatched was a Yield with a selector above 1.
InvalidYield ==
    /\ pc = "dp_loop"
    /\ IsSome(obs.syscall)
    /\ Unwrap(obs.syscall).kind = "Yield"
    /\ Unwrap(obs.syscall).n > YieldCall_Wait

\* C33: a Yield with a selector above 1 sets no return value, writes nothing to
\* the flag address and leaves the process Running with its task queue as it
\* was; the next pass of the inner loop takes the Running arm and switches to
\* the process again, unless the timeslice is used up or kernel work is pending.
C33_InvalidYieldChangesNothing ==
    /\ [](InvalidYield =>
            /\ Proc(Cur, CurProc).retval = RvUnset("Yield")
            /\ obs.set_byte = None
            /\ get_state(Cur, CurProc) = "Running"
            /\ Proc(Cur, CurProc).tasks = obs.tasks_before)
    /\ [][(InvalidYield /\ pc' # pc) =>
            IF stop_running(get_remaining_us(timer, dp.timeslice_us))
            THEN pc' = "dp_exit" /\ dp'.return_reason = "TimesliceExpired"
            ELSE IF ~continue_process
            THEN pc' = "dp_exit" /\ dp'.return_reason = "KernelPreemption"
            ELSE pc' = "user" /\ CurProc \in cpu'.user_mode]_vars

\* A Yield with selector 2 was dispatched while a task was queued; time is
\* left and no kernel work is pending, so the process is about to run again.
C33_Witness ==
    /\ InvalidYield
    /\ Unwrap(obs.syscall).n = 2
    /\ obs.tasks_before # << >>
    /\ ~stop_running(get_remaining_us(timer, dp.timeslice_us))
    /\ continue_process

\* C34: a Subscribe that the filter lets through leaves in the task queue
\* exactly the tasks that are not upcalls of its id, in their order, whatever
\* the pointer, the driver number and the driver's answer; with no driver of
\* that number it returns Failure(NODEVICE) with the upcall passed, and a
\* Subscribe that fails leaves the callbacks the drivers hold as they were.
C34_SubscribeDropsBeforeDriver ==
    /\ [](IsSome(obs.syscall) =>
            LET sc == Unwrap(obs.syscall)
                id == UpcallId(sc.n, sc.sub)
                new == IF sc.a0 = 0 THEN NullUpcall ELSE [fn |-> sc.a0, ud |-> sc.a1]
            IN  (sc.kind = "Subscribe" /\ obs.filtered = None) =>
                  /\ Proc(Cur, CurProc).tasks =
                        SelectSeq(obs.tasks_before, LAMBDA t : ~IsUpcallFor(t, id))
                  /\ with_driver(sc.n) = None =>
                        Proc(Cur, CurProc).retval =
                            SubscribeFailure("NODEVICE", new.fn, new.ud)
                  /\ sc.sub # 0 =>
                        Proc(Cur, CurProc).retval.tag = "SubscribeFailure")
    /\ [][(/\ pc = "csr" /\ pc' = "dp_loop"
           /\ csr.reason = "SyscallFired"
           /\ csr.syscall.kind = "Subscribe"
           /\ Proc(Cur, CurProc).retval'.tag = "SubscribeFailure")
            => (button_apps' = button_apps /\ usb_apps' = usb_apps)]_vars

\* A Subscribe with a null pointer dropped a queued upcall of its id and left
\* the upcall of another id in the queue.
C34_Witness ==
    /\ IsSome(obs.syscall)
    /\ Unwrap(obs.syscall).kind = "Subscribe"
    /\ Unwrap(obs.syscall).a0 = 0
    /\ obs.filtered = None
    /\ Len(Proc(Cur, CurProc).tasks) = 1
    /\ Len(obs.tasks_before) = 2
    /\ Proc(Cur, CurProc).tasks[1].kind = "FunctionCall"

(***************************************************************************)
(* More properties of do_process (specification Spec).                     *)
(***************************************************************************)
\* C35: do_process switches to the process only from a pass of the inner loop
\* that found time above MIN_QUANTA_THRESHOLD_US remaining, continue_process
\* true, the process ready and its state Running; the process that runs in
\* user mode is Running, so a process in any other state, also one that
\* exited or faulted earlier in the same execution, is never switched to.
C35_SwitchOnlyToRunning ==
    /\ [][(pc # "user" /\ pc' = "user") =>
            /\ pc = "dp_loop"
            /\ ~stop_running(get_remaining_us(timer, dp.timeslice_us))
            /\ IsSome(get_remaining_us(timer, dp.timeslice_us))
            /\ Unwrap(get_remaining_us(timer, dp.timeslice_us)) > MIN_QUANTA_THRESHOLD_US
            /\ continue_process
            /\ ready(Cur, CurProc)
            /\ get_state(Cur, CurProc) = "Running"
            /\ cpu'.user_mode = {CurProc}]_vars
    /\ [](\A i \in cpu.user_mode : pc = "user" /\ i = CurProc
                                     /\ get_state(Cur, i) = "Running")
    /\ [][(pc = "dp_loop" /\ get_state(Cur, CurProc) # "Running") => pc' # "user"]_vars

\* The process exited in this execution of do_process, after having been
\* switched to, and the inner loop is at its top with time left and no kernel
\* work pending.
C35_Witness ==
    /\ pc = "dp_loop"
    /\ iter.switched
    /\ get_state(Cur, CurProc) = "Terminated"
    /\ ~stop_running(get_remaining_us(timer, dp.timeslice_us))
    /\ continue_process

\* StoppedExecutingReason without StoppedFaulted.
ReturnedReasons == {"NoWorkLeft", "Stopped", "TimesliceExpired", "KernelPreemption"}

C37_TimeWithinTimeslice ==
    /\ []((DoProcessRuns /\ IsSome(dp.timeslice_us)) =>
            /\ timer.mode \in {"running", "expired"}
            /\ timer.rem >= 0
            /\ timer.rem <= Unwrap(dp.timeslice_us))
    /\ []((Returned /\ IsSome(dp.timeslice_us)) =>
            /\ IsSome(sched.time)
            /\ Unwrap(sched.time) \in 0 .. Unwrap(dp.timeslice_us))
    /\ [][(pc = "dp_exit" /\ pc' = "done" /\ IsSome(dp.timeslice_us)) =>
            sched'.time =
                IF dp.return_reason = "TimesliceExpired" \/ timer.mode = "expired"
                THEN dp.timeslice_us
                ELSE Some(Unwrap(dp.timeslice_us) - timer.rem)]_vars

\* do_process returned NoWorkLeft after it switched to the process, and charges
\* a part of the timeslice.
C37_Witness ==
    /\ Returned
    /\ iter.switched
    /\ sched.reason = "NoWorkLeft"
    /\ IsSome(sched.time)
    /\ Unwrap(sched.time) > 0
    /\ Unwrap(sched.time) < Unwrap(dp.timeslice_us)

(***************************************************************************)
(* Termination of do_process (specification SpecLive).  One process that   *)
(* makes syscalls that return to it, yields or exits, run with a timeslice *)
(* or cooperatively.  The kernel's own code runs to completion (weak       *)
(* fairness of the steps of do_process), the timer counts down (weak       *)
(* fairness of Tick), and the armed timer's expiry interrupts the process. *)
(***************************************************************************)
LiveSyscalls == {Memop(0, 0), Yield(YieldCall_Wait, 0), Exit(0, 0)}

LiveHandlers == {Handler("none", 0, 0, 0)}

LiveDecisions ==
    {TrySleep, RunProcess(ProcessId(0, 0), None)} \cup
    {RunProcess(ProcessId(1, id), ts) :
        id \in 0 .. (MaxIdentifier - 1),
        ts \in {None, Some(MIN_QUANTA_THRESHOLD_US + 1), Some(MaxTimeslice)}}

NextLive == KernelNext(LiveHandlers, LiveSyscalls, LiveDecisions)

\* The expiry of the armed timer interrupts the running process.
TimerInterrupt == UserInterrupted /\ timer.armed /\ timer.mode = "expired"

LiveFairness ==
    /\ WF_vars(ProcessLoop)
    /\ WF_vars(\E env \in EnvsFor(csr) : HandleSwitchReason(env))
    /\ WF_vars(ProcessReturn)
    /\ WF_vars(\E r \in TimePoints \cup {-1} : Tick(r))
    /\ WF_vars(TimerInterrupt)

SpecLive == Init /\ [][NextLive]_vars /\ LiveFairness

\* do_process runs with a timeslice.
Preemptive == DoProcessRuns /\ IsSome(dp.timeslice_us)

\* C38 as stated: every execution of do_process with a timeslice returns; a
\* process that is still Running at the return ended with TimesliceExpired or
\* KernelPreemption; a process that has yielded with nothing left in its task
\* queue ended with NoWorkLeft.
C38_DrainedQueueEndsNoWorkLeft ==
    /\ Preemptive ~> Returned
    /\ []((Returned /\ IsSome(dp.timeslice_us) /\ get_state(Cur, CurProc) = "Running")
            => sched.reason \in {"TimesliceExpired", "KernelPreemption"})
    /\ []((/\ Returned /\ IsSome(dp.timeslice_us)
           /\ get_state(Cur, CurProc) = "Yielded"
           /\ ~has_tasks(Cur, CurProc))
            => sched.reason = "NoWorkLeft")

\* C38 (amended): every execution of do_process with a timeslice returns; a
\* process that is still Running at the return ended with TimesliceExpired or
\* KernelPreemption; a process that has yielded with nothing left in its task
\* queue ended with NoWorkLeft, unless the timeslice was used up or kernel
\* work was pending at the pass that found it so; and NoWorkLeft is returned
\* only for a process that is not ready.
C38_DoProcessReturns ==
    /\ Preemptive ~> Returned
    /\ []((Returned /\ IsSome(dp.timeslice_us) /\ get_state(Cur, CurProc) = "Running")
            => sched.reason \in {"TimesliceExpired", "KernelPreemption"})
    /\ []((/\ Returned /\ IsSome(dp.timeslice_us)
           /\ get_state(Cur, CurProc) = "Yielded"
           /\ ~has_tasks(Cur, CurProc))
            => sched.reason \in {"NoWorkLeft", "TimesliceExpired", "KernelPreemption"})
    /\ []((Returned /\ sched.reason = "NoWorkLeft") => ~ready(Cur, CurProc))
    /\ [][(/\ pc = "dp_loop" /\ pc' # pc
           /\ ~ready(Cur, CurProc)
           /\ ~stop_running(get_remaining_us(timer, dp.timeslice_us))
           /\ continue_process)
            => (pc' = "dp_exit" /\ dp'.return_reason = "NoWorkLeft")]_vars

\* The process, run with a timeslice, made a syscall that returned to it and
\* was switched to again: it is in user mode and has not yielded.
C38_Witness ==
    /\ pc = "user"
    /\ IsSome(dp.timeslice_us)
    /\ Proc(Cur, CurProc).retval.tag # "Unset"
    /\ timer.mode = "running"
    /\ timer.armed

(***************************************************************************)
(* Invariants of the drivers (specifications SpecUsb and SpecBtn).         *)
(***************************************************************************)
\* The upcall the USB driver schedules for process j.
UsbUpcall(j) ==
    [kind |-> "FunctionCall", id |-> UpcallId(USB_DRIVER_NUM, 0),
     fn |-> usb_apps[j].callback.fn, a0 |-> 0, a1 |-> 0,
     ud |-> usb_apps[j].callback.ud, stale |-> FALSE]

\* The step is USB command 1 of process i, answered with Success.
UsbCommandServed(i) ==
    /\ DriverTick' # DriverTick
    /\ called'.fn = "usb_command"
    /\ called'.num = 1
    /\ called'.appid.index = i
    /\ called'.ret = Success

\* C39: serving_app is always empty and no process has a request pending
\* between the driver's calls; a command 1 answered with Success has enabled
\* and attached the controller, scheduled one upcall on the caller's callback
\* and on no other, and left the caller without a request; no command is
\* answered with Failure(BUSY).
C39_RequestsServedAtOnce ==
    /\ [](serving_app = None)
    /\ [](\A i \in ProcIdx : ~Awaiting(i))
    /\ [](called.fn = "usb_command" => (~called.before /\ called.ret # Failure("BUSY")))
    /\ [][\A i \in ProcIdx :
            UsbCommandServed(i) =>
                /\ usbc' = [enabled |-> TRUE, attached |-> TRUE]
                /\ Tasks(i)' =
                      IF usb_apps[i].callback # NullUpcall /\ Len(Tasks(i)) < MaxTasks
                      THEN Append(Tasks(i), UsbUpcall(i))
                      ELSE Tasks(i)
                /\ \A j \in ProcIdx \ {i} : Tasks(j)' = Tasks(j)
                /\ usb_apps' = usb_apps]_vars

\* Process 1 had command 1 answered with Success a second time while the
\* upcall of its first request was still queued: both upcalls are queued.
C39_Witness ==
    /\ called.fn = "usb_command"
    /\ called.num = 1
    /\ called.appid.index = 1
    /\ called.ret = Success
    /\ Len(Tasks(1)) = 2
    /\ \A n \in 1 .. 2 : IsUpcallFor(Tasks(1)[n], UpcallId(USB_DRIVER_NUM, 0))
    /\ usbc = [enabled |-> TRUE, attached |-> TRUE]

\* The button driver under enable and disable commands of two processes for
\* every pin, pin interrupts and process terminations (specification SpecPins).
NextPins ==
    \/ \E i \in ProcIdx, c \in {1, 2}, data \in Pins : BtnCommand(i, c, data, DrvLevel)
    \/ \E pin_num \in Pins : BtnFired(pin_num, DrvLevel)
    \/ \E i \in ProcIdx : DrvExit(i)

SpecPins == InitDrv /\ [][NextPins]_vars

\* C40: a pin whose bit is set in the mask of a live process has its interrupt
\* enabled; command 2 and fired disable a pin only when no live process has
\* its bit.
C40_SubscribedPinStaysEnabled ==
    /\ [](\A p \in Pins : LiveWithBit(p) => pin_enabled[p])
    /\ [][\A p \in Pins :
            (pin_enabled[p] /\ ~pin_enabled'[p]) =>
                /\ DriverTick' # DriverTick
                /\ called'.fn \in {"command", "fired"}
                /\ called'.fn = "command" => called'.num = 2
                /\ called'.data = p
                /\ ~LiveWithBit(p)']_vars

\* Process 2 cleared its bit of pin 1 with command 2 while process 1, live,
\* holds that bit: the pin is still enabled.
C40_Witness ==
    /\ called.fn = "command"
    /\ called.num = 2
    /\ called.data = 1
    /\ called.appid.index = 2
    /\ called.before
    /\ called.ret = Success
    /\ Live(1)
    /\ MaskBit(1, 1)
    /\ ~MaskBit(2, 1)
    /\ pin_enabled[1]

====
